---------------------------- MODULE Spec2Model ----------------------------
(***************************************************************************)
(* A model of salescrawler: the pattern language (scanner, parser,         *)
(* evaluator, rule fingerprint), rule selection, and the notify stage of   *)
(* the pipeline.  Text is a sequence of one-character strings; Option<T>   *)
(* is a sequence of length 0 (None) or 1 (Some).                           *)
(***************************************************************************)
EXTENDS Integers, Sequences, FiniteSets, TLC

VARIABLES
    source,     \* Scanner.source: the pattern text under scan
    chain,      \* the factors and operators `source` was written from
    scanned,    \* the outcome of the scanner call made on `source` (None before the call)
    evalPattern, \* the Pattern an evaluator call is made on
    evalField,  \* the Option<String> field it is evaluated against
    verdict,    \* the outcome of the evaluator call (None before the call)
    rulesArg,   \* the Rules get_matching_rule is called on
    postArg,    \* its Post argument
    titleArg,   \* its Title argument
    selected,   \* what the call returned (None before the call)
    ruleFile,   \* the rule file: a JSON array of rule definitions
    ruleSet,    \* what Rules::read_from_file returned (None before the call)
    ruleInserts, \* the values bound by the INSERT statements of insert_rule, in order
    startup,    \* how far startup has come
    notifyChan, \* the messages in the channel rx_notify reads, oldest first
    queued_notifications, \* notify_loop's queue of matches
    remaining,  \* discord_client.ratelimit.remaining
    sinkCalls,  \* the create_message calls made so far, each with its body and result
    notifyState, \* "off" before notify_loop starts, then "running", "failed" once it returned an error
    clockPc,    \* where the clock task stands: "send" before tx.send, "tick" before interval.tick
    ticks,      \* the number of TimerFired messages the clock has sent
    forwarded,  \* the number of NewMatch messages process_posts has sent
    now, \* the system time, in seconds
    auth, \* reddit_client.auth
    tokenFile, \* the contents of config.token_file (None: no such file)
    ingestPc, \* where poll_buildapcsales_forever stands
    lastFetch, \* the token and time of the last listing request sent
    reported, \* the rate-limit headers of the last listing response
    sleepFor, \* the Duration get_wait_time returned last
    tokens, \* the number of access tokens the auth host has issued
    restarts, \* the number of times the process was restarted
    fetches, \* the number of listing requests sent
    emits, \* the number of listings write_posts has emitted
    feed, \* the listings the source has yet to serve, in order
    outbox, \* the posts of the fetched listing that write_posts has yet to send
    postChan, \* the posts in the channel rx_post reads, oldest first
    matchPc, \* where process_posts stands: recv, send, failed (off: not spawned)
    matchPending, \* the MatchingPost process_posts is sending
    dbPosts, \* the ids of the rows of table posts
    dbTitles, \* the rows of table parsed_titles
    dbMatches, \* the rows of table rule_matches, in insertion order
    emitted, \* the posts write_posts has sent since the process started
    received, \* the posts process_posts has received since the process started
    lastOutcome, \* how the last iteration of process_posts ended
    sentMatches, \* the post ids of the NewMatch messages process_posts has sent
    singleWorker, \* the runtime has one worker thread, which all spawned tasks share
    period, \* sending_interval_secs, the period of the clock's Interval
    deadline, \* the instant at which the Interval's next tick completes (None: no Interval yet)
    firedAt, \* the times at which the clock sent a TimerFired, in order
    titleForm \* the pieces the title of postArg was written from (None: not written from pieces)

parseVars == <<source, chain, scanned>>
matchVars == <<evalPattern, evalField, verdict>>
selectVars == <<rulesArg, postArg, titleArg, selected>>
loadVars == <<ruleFile, ruleSet, ruleInserts, startup>>
notifyVars == <<notifyChan, queued_notifications, remaining, sinkCalls, notifyState,
                clockPc, ticks, forwarded>>
ingestVars == <<now, auth, tokenFile, ingestPc, lastFetch, reported, sleepFor, tokens, restarts, fetches, emits>>
pipeVars == <<feed, outbox, postChan, matchPc, matchPending, dbPosts, dbTitles, dbMatches, emitted, received, lastOutcome, sentMatches, singleWorker>>
clockVars == <<period, deadline, firedAt>>
titleVars == <<titleForm>>
vars == <<source, chain, scanned, evalPattern, evalField, verdict,
          rulesArg, postArg, titleArg, selected, ruleFile, ruleSet, ruleInserts, startup,
          notifyChan, queued_notifications, remaining, sinkCalls, notifyState,
          clockPc, ticks, forwarded,
          now, auth, tokenFile, ingestPc, lastFetch, reported, sleepFor, tokens, restarts, fetches, emits,
          feed, outbox, postChan, matchPc, matchPending, dbPosts, dbTitles, dbMatches, emitted, received, lastOutcome, sentMatches, singleWorker,
          period, deadline, firedAt,
          titleForm>>

None == <<>>
Some(x) == <<x>>

\* the one element of a singleton set: { e(x) : x \in {v} } binds x to the
\* value of v, so that v is computed once however often e uses x
Only(S) == CHOOSE x \in S : TRUE

\* ------------------------------------------------------------------------
\* Bounds of the model
\* ------------------------------------------------------------------------
MaxChars == 4    \* longest free-text pattern source, in characters
MaxChain == 3    \* most factors in a chain-shaped pattern source
MaxNodes == 5    \* most nodes of a Pattern given to the evaluator
MaxText == 2     \* longest text field given to the evaluator, in characters
MaxRules == 2    \* most rules of a Rules given to get_matching_rule
MaxDefs == 2     \* most rule definitions of a rule file
MaxMatches == 3  \* most NewMatch messages process_posts sends
MaxTicks == 3    \* most TimerFired messages the clock sends
MaxRemaining == 2 \* largest X-RateLimit-Remaining a response carries
MaxTime == 5     \* the system time at which the model stops the clock
MaxTokens == 2   \* most access tokens the auth host issues
MaxRestarts == 1 \* most restarts of the process
MaxFeed == 2     \* most posts the listing source serves

\* ------------------------------------------------------------------------
\* Characters
\* ------------------------------------------------------------------------
Quote == "\""
Whitespace == {" "}
Alphanumeric == {"a", "b"}
\* the alphabet free-text sources are drawn from: one alphanumeric character,
\* every character the scanner treats specially, and one ("-") that is none of these
Sigma == {"a", "&", "|", "(", ")", "!", " ", Quote, "-"}

\* char::is_whitespace / char::is_alphanumeric on the model's alphabet
is_whitespace(ch) == ch \in Whitespace
is_alphanumeric(ch) == ch \in Alphanumeric

\* ------------------------------------------------------------------------
\* Pattern (rule.rs, enum Pattern)
\* ------------------------------------------------------------------------
Exact(k) == [kind |-> "Exact", kwd |-> k]
Or(p1, p2) == [kind |-> "Or", p1 |-> p1, p2 |-> p2]
And(p1, p2) == [kind |-> "And", p1 |-> p1, p2 |-> p2]
Not(p) == [kind |-> "Not", p |-> p]

\* ------------------------------------------------------------------------
\* Scanner (rule.rs).  A scanner state is [cursor, last_token]; every
\* operation returns [sc, ok, val, err]: the scanner state it leaves, whether
\* it returned Ok, the value (when Ok) and the error variant (when Err).
\* ------------------------------------------------------------------------
Scanner_new == [cursor |-> 0, last_token |-> None]

Ok(sc, v) == [sc |-> sc, ok |-> TRUE, val |-> v, err |-> "", exp |-> ""]
Err(sc, e) == [sc |-> sc, ok |-> FALSE, val |-> None, err |-> e, exp |-> ""]
ErrExpected(sc, e, x) == [sc |-> sc, ok |-> FALSE, val |-> None, err |-> e, exp |-> x]

Token(t) == [t |-> t, kwd |-> <<>>]
Keyword(k) == [t |-> "Keyword", kwd |-> k]

\* self.source.chars().nth(self.cursor)
peek(src, sc) ==
    IF sc.cursor < Len(src) THEN Some(src[sc.cursor + 1]) ELSE None

\* the scanner state after pop(): the cursor advances even at the end of input
pop(sc) == [sc EXCEPT !.cursor = @ + 1]

is_done(src, sc) == sc.cursor = Len(src)

\* take(ch): [sc, hit]
take(src, sc, ch) ==
    LET is_match == peek(src, sc) = Some(ch)
    IN  [sc |-> IF is_match THEN pop(sc) ELSE sc, hit |-> is_match]

\* the loop of until_next_quote: [sc, kwd]
RECURSIVE quote_loop(_, _, _)
quote_loop(src, sc, kwd) ==
    LET ch == peek(src, sc)
    IN  IF ch = None THEN [sc |-> sc, kwd |-> kwd]
        ELSE IF ch[1] = Quote THEN [sc |-> pop(sc), kwd |-> kwd]
        ELSE quote_loop(src, pop(sc), Append(kwd, ch[1]))

\* until_next_quote without its check for an immediately closing quote
until_next_quote_unchecked(src, sc) ==
    Only({ Ok(r.sc, r.kwd) : r \in {quote_loop(src, sc, <<>>)} })

until_next_quote(src, sc) ==
    LET t == take(src, sc, Quote)
    IN  IF t.hit THEN Err(t.sc, "EmptyKeyword")
        ELSE Only({ Ok(r.sc, r.kwd) : r \in {quote_loop(src, t.sc, <<>>)} })

\* the while loop of keyword(): the characters after the first one
RECURSIVE keyword_loop(_, _, _)
keyword_loop(src, sc, kwd) ==
    LET ch == peek(src, sc)
    IN  IF ch = None THEN Ok(sc, kwd)
        ELSE IF is_whitespace(ch[1]) \/ ch[1] \in {"!", "|", "&", "(", ")"}
             THEN Ok(sc, kwd)
        ELSE IF ~is_alphanumeric(ch[1]) THEN Err(sc, "InvalidKeywordChar")
        ELSE keyword_loop(src, pop(sc), Append(kwd, ch[1]))

keyword(src, sc) ==
    LET t == take(src, sc, Quote)
    IN  IF t.hit THEN until_next_quote(src, t.sc)
        ELSE IF is_done(src, sc) THEN Err(sc, "ExpectedNonWhitespace")
        ELSE LET ch == peek(src, sc)
                 sc1 == pop(sc)
             IN  IF ch = None THEN Err(sc1, "ExpectedNonWhitespace")
                 ELSE IF is_whitespace(ch[1]) THEN Err(sc1, "ExpectedNonWhitespace")
                 ELSE keyword_loop(src, sc1, <<ch[1]>>)

\* a next_token that skips no whitespace
skip_no_whitespace(src, sc) == sc

\* the whitespace loop of next_token
RECURSIVE skip_whitespace(_, _)
skip_whitespace(src, sc) ==
    LET ch == peek(src, sc)
    IN  IF ch # None /\ is_whitespace(ch[1]) THEN skip_whitespace(src, pop(sc)) ELSE sc

\* a scanner for which one '|' or '&' is the whole operator
second_char_lenient(src, sc, ch, tok) == Ok(pop(sc), Some(Token(tok)))

\* the second character of "||" and "&&"
second_char(src, sc, ch, tok) ==
    LET sc1 == pop(sc)
        nxt == peek(src, sc1)
        sc2 == pop(sc1)
    IN  IF nxt = Some(ch) THEN Ok(sc2, Some(Token(tok)))
        ELSE Err(sc2, "ExpectedButGotChar")

\* next_token once the whitespace is skipped and last_token is set
token_at(src, sc) ==
    LET ch == peek(src, sc)
    IN  IF ch = None THEN Ok(sc, None)
        ELSE IF ch[1] = "(" THEN Ok(pop(sc), Some(Token("ParenOpen")))
        ELSE IF ch[1] = ")" THEN Ok(pop(sc), Some(Token("ParenClose")))
        ELSE IF ch[1] = "!" THEN Ok(pop(sc), Some(Token("OpNegate")))
        ELSE IF ch[1] = "|" THEN second_char(src, sc, "|", "OpOr")
        ELSE IF ch[1] = "&" THEN second_char(src, sc, "&", "OpAnd")
        ELSE Only({ IF k.ok THEN Ok(k.sc, Some(Keyword(k.val))) ELSE k
                    : k \in {keyword(src, sc)} })

next_token(src, sc) ==
    Only({ token_at(src, [sc1 EXCEPT !.last_token = Some(sc1.cursor)])
           : sc1 \in {skip_whitespace(src, sc)} })

rewind_cursor(sc) ==
    IF sc.last_token = None THEN Err(sc, "CantRewindToken")
    ELSE Ok([cursor |-> sc.last_token[1], last_token |-> None], None)

\* PartialPattern: an operator, its right operand and the rest of the tail
PartialPattern(op, rhs, partial) == [op |-> op, rhs |-> rhs, partial |-> partial]

\* apply as a right fold: the tail is grouped before it is joined to lhs
RECURSIVE apply_right_fold(_, _)
apply_right_fold(partial, lhs) ==
    LET rhs == IF partial.partial = None THEN partial.rhs
               ELSE apply_right_fold(partial.partial[1], partial.rhs)
    IN  IF partial.op = "And" THEN And(lhs, rhs) ELSE Or(lhs, rhs)

RECURSIVE apply(_, _)
apply(partial, lhs) ==
    LET joined == IF partial.op = "And" THEN And(lhs, partial.rhs)
                  ELSE Or(lhs, partial.rhs)
    IN  IF partial.partial = None THEN joined
        ELSE apply(partial.partial[1], joined)

RECURSIVE pattern(_, _), pattern_tail(_, _), factor(_, _)

\* a factor whose '!' takes the next factor only
factor_negating_factor(src, sc) ==
    Only({ IF ~tok.ok THEN tok
           ELSE IF tok.val = None
           THEN ErrExpected(tok.sc, "ExpectedButGotToken", "ParenOpen,Keyword")
           ELSE IF tok.val[1].t = "ParenOpen"
           THEN Only({ IF ~sub.ok THEN sub
                       ELSE Only({ IF ~close.ok THEN close
                                   ELSE IF close.val # None /\ close.val[1].t = "ParenClose"
                                   THEN Ok(close.sc, sub.val)
                                   ELSE ErrExpected(close.sc, "ExpectedButGotToken",
                                                    "ParenClose")
                                   : close \in {next_token(src, sub.sc)} })
                       : sub \in {pattern(src, tok.sc)} })
           ELSE IF tok.val[1].t = "OpNegate"
           THEN Only({ IF ~sub.ok THEN sub ELSE Ok(sub.sc, Not(sub.val))
                       : sub \in {factor(src, tok.sc)} })
           ELSE IF tok.val[1].t = "Keyword" THEN Ok(tok.sc, Exact(tok.val[1].kwd))
           ELSE ErrExpected(tok.sc, "ExpectedButGotToken", "ParenOpen,Keyword")
           : tok \in {next_token(src, sc)} })

pattern(src, sc) ==
    Only({ IF ~f.ok THEN f
           ELSE Only({ IF ~tail.ok THEN tail
                       ELSE IF tail.val = None THEN Ok(tail.sc, f.val)
                       ELSE Ok(tail.sc, apply(tail.val[1], f.val))
                       : tail \in {pattern_tail(src, f.sc)} })
           : f \in {factor(src, sc)} })

pattern_tail(src, sc) ==
    Only({ IF ~tok.ok THEN tok
           ELSE IF tok.val # None /\ tok.val[1].t \in {"OpAnd", "OpOr"}
           THEN Only({ IF ~f.ok THEN f
                       ELSE Only({ IF ~rhs.ok THEN rhs
                                   ELSE Ok(rhs.sc,
                                           Some(PartialPattern(
                                               IF tok.val[1].t = "OpAnd" THEN "And" ELSE "Or",
                                               f.val, rhs.val)))
                                   : rhs \in {pattern_tail(src, f.sc)} })
                       : f \in {factor(src, tok.sc)} })
           ELSE rewind_cursor(tok.sc)
           : tok \in {next_token(src, sc)} })

factor(src, sc) ==
    Only({ IF ~tok.ok THEN tok
           ELSE IF tok.val = None
           THEN ErrExpected(tok.sc, "ExpectedButGotToken", "ParenOpen,Keyword")
           ELSE IF tok.val[1].t = "ParenOpen"
           THEN Only({ IF ~sub.ok THEN sub
                       ELSE Only({ IF ~close.ok THEN close
                                   ELSE IF close.val # None /\ close.val[1].t = "ParenClose"
                                   THEN Ok(close.sc, sub.val)
                                   ELSE ErrExpected(close.sc, "ExpectedButGotToken",
                                                    "ParenClose")
                                   : close \in {next_token(src, sub.sc)} })
                       : sub \in {pattern(src, tok.sc)} })
           ELSE IF tok.val[1].t = "OpNegate"
           THEN Only({ IF ~sub.ok THEN sub ELSE Ok(sub.sc, Not(sub.val))
                       : sub \in {pattern(src, tok.sc)} })
           ELSE IF tok.val[1].t = "Keyword" THEN Ok(tok.sc, Exact(tok.val[1].kwd))
           ELSE ErrExpected(tok.sc, "ExpectedButGotToken", "ParenOpen,Keyword")
           : tok \in {next_token(src, sc)} })

parse_pattern(input) == pattern(input, Scanner_new)

\* ------------------------------------------------------------------------
\* Pattern sources.  A chain is a sequence of links [op, f]: the first link
\* has no operator (op = ""), every later one "And" or "Or"; a factor f is a
\* keyword [kwd] or a parenthesised inner chain of keywords [inner].
\* ------------------------------------------------------------------------
KwFactor(k) == [kwd |-> k, inner |-> <<>>]
ParenFactor(links) == [kwd |-> <<>>, inner |-> links]
Link(op, f) == [op |-> op, f |-> f]

ParenFactors ==
    { ParenFactor(<<Link("", KwFactor(<<"a">>)), Link("Or", KwFactor(<<"b">>))>>),
      ParenFactor(<<Link("", KwFactor(<<"a">>)), Link("And", KwFactor(<<"b">>))>>),
      ParenFactor(<<Link("", KwFactor(<<"b">>))>>) }
Factors == {KwFactor(<<"a">>), KwFactor(<<"b">>)} \cup ParenFactors

ChainsOfLen(n) ==
    { <<Link("", f)>> \o rest :
        f \in Factors, rest \in [1..(n - 1) -> {Link(op, g) : op \in {"And", "Or"}, g \in Factors}] }
Chains ==
    { [links |-> l, sp |-> sp] :
        l \in UNION {ChainsOfLen(n) : n \in 1..MaxChain}, sp \in BOOLEAN }
NoChain == [links |-> <<>>, sp |-> FALSE]

OpText(op) == IF op = "And" THEN <<"&", "&">> ELSE IF op = "Or" THEN <<"|", "|">> ELSE <<>>

\* the text of a chain: factors and operators in order, separated by one
\* blank when sp holds
RECURSIVE RenderLinks(_, _)
RenderLinks(links, sp) ==
    IF links = <<>> THEN <<>>
    ELSE LET l == links[Len(links)]
             sep == IF sp /\ l.op # "" THEN <<" ">> ELSE <<>>
             ftext == IF l.f.inner = <<>> THEN l.f.kwd
                      ELSE <<"(">> \o RenderLinks(l.f.inner, sp) \o <<")">>
         IN  RenderLinks(SubSeq(links, 1, Len(links) - 1), sp)
                 \o sep \o OpText(l.op) \o sep \o ftext
Render(c) == RenderLinks(c.links, c.sp)

\* every text over Sigma of at most n characters
TextsUpTo(n) == UNION {[1..k -> Sigma] : k \in 0..n}

\* ------------------------------------------------------------------------
\* The scanner's entry points, each run on a fresh Scanner::new(source)
\* ------------------------------------------------------------------------
ParseIdle == source = <<>> /\ chain = NoChain /\ scanned = None
MatchIdle == evalPattern = Exact(<<>>) /\ evalField = None /\ verdict = None
SelectIdle == rulesArg = <<>> /\ postArg = None /\ titleArg = None /\ selected = None
LoadIdle == ruleFile = None /\ ruleSet = None /\ ruleInserts = <<>> /\ startup = "idle"
NotifyIdle ==
    /\ notifyChan = <<>> /\ queued_notifications = <<>> /\ remaining = 1 /\ sinkCalls = <<>>
    /\ notifyState = "off" /\ clockPc = "send" /\ ticks = 0 /\ forwarded = 0

IngestIdle ==
    /\ now = 0 /\ auth = None /\ tokenFile = None /\ ingestPc = "off" /\ lastFetch = None
    /\ reported = None /\ sleepFor = None /\ tokens = 0 /\ restarts = 0 /\ fetches = 0 /\ emits = 0

PipeIdle ==
    /\ feed = <<>> /\ outbox = <<>> /\ postChan = <<>> /\ matchPc = "off" /\ matchPending = None
    /\ dbPosts = {} /\ dbTitles = {} /\ dbMatches = <<>> /\ emitted = <<>> /\ received = <<>>
    /\ lastOutcome = "" /\ sentMatches = <<>> /\ singleWorker = FALSE

ClockIdle ==
    period = 1 /\ deadline = None /\ firedAt = <<>>

TitleIdle ==
    titleForm = None

ParseInit ==
    /\ MatchIdle /\ SelectIdle /\ LoadIdle /\ NotifyIdle /\ IngestIdle /\ PipeIdle /\ ClockIdle /\ TitleIdle
    /\ scanned = None
    /\ \/ chain = NoChain /\ source \in TextsUpTo(MaxChars)
       \/ chain \in Chains /\ source = Render(chain)

\* parse_pattern(source)
ParsePattern ==
    /\ scanned = None
    /\ scanned' = Some([op |-> "parse_pattern", res |-> parse_pattern(source)])
    /\ UNCHANGED <<source, chain, matchVars, selectVars, loadVars, notifyVars, ingestVars, pipeVars, clockVars, titleVars>>

\* Scanner::new(source).keyword(), as the unit tests call it
ScanKeyword ==
    /\ scanned = None
    /\ scanned' = Some([op |-> "keyword", res |-> keyword(source, Scanner_new)])
    /\ UNCHANGED <<source, chain, matchVars, selectVars, loadVars, notifyVars, ingestVars, pipeVars, clockVars, titleVars>>

ParseNext == ParsePattern \/ ScanKeyword

SpecParse == ParseInit /\ [][ParseNext]_vars

\* ------------------------------------------------------------------------
\* Surface forms of patterns.  A form is a sequence of terms [op, neg, f]:
\* op joins the term to what is on its left ("" for the first term), neg
\* says that '!' is written before the factor f.  It is written with or
\* without a blank between tokens (sp), with its keywords quoted or not
\* (quoted), and either whole (cut = "") or cut short: followed by an
\* operator with nothing after it ("&&", "||"), by one '&' or '|', or put
\* after an opening parenthesis that is never closed ("(").
\* ------------------------------------------------------------------------
Term(op, neg, f) == [op |-> op, neg |-> neg, f |-> f]

TermFactors ==
    { KwFactor(<<"a">>), KwFactor(<<"b">>),
      ParenFactor(<<Link("", KwFactor(<<"a">>)), Link("Or", KwFactor(<<"b">>))>>) }

FirstTerms == { Term("", neg, f) : neg \in BOOLEAN, f \in TermFactors }
LaterTerms == { Term(op, neg, f) : op \in {"And", "Or"}, neg \in BOOLEAN, f \in TermFactors }

Cuts == {"&&", "||", "&", "|", "("}

Form(terms, sp, quoted, cut) == [terms |-> terms, sp |-> sp, quoted |-> quoted, cut |-> cut]

Blank(sp) == IF sp THEN <<" ">> ELSE <<>>
KeywordText(k, quoted) == IF quoted THEN <<Quote>> \o k \o <<Quote>> ELSE k

\* the text of the keywords and operators inside a pair of parentheses
RECURSIVE InnerText(_, _, _)
InnerText(links, sp, quoted) ==
    IF links = <<>> THEN <<>>
    ELSE InnerText(SubSeq(links, 1, Len(links) - 1), sp, quoted)
            \o (IF links[Len(links)].op = "" THEN <<>>
                ELSE Blank(sp) \o OpText(links[Len(links)].op) \o Blank(sp))
            \o KeywordText(links[Len(links)].f.kwd, quoted)

FactorText(f, sp, quoted) ==
    IF f.inner = <<>> THEN KeywordText(f.kwd, quoted)
    ELSE <<"(">> \o Blank(sp) \o InnerText(f.inner, sp, quoted) \o Blank(sp) \o <<")">>

RECURSIVE TermsText(_, _, _)
TermsText(terms, sp, quoted) ==
    IF terms = <<>> THEN <<>>
    ELSE TermsText(SubSeq(terms, 1, Len(terms) - 1), sp, quoted)
            \o (IF terms[Len(terms)].op = "" THEN <<>>
                ELSE Blank(sp) \o OpText(terms[Len(terms)].op) \o Blank(sp))
            \o (IF terms[Len(terms)].neg THEN <<"!">> \o Blank(sp) ELSE <<>>)
            \o FactorText(terms[Len(terms)].f, sp, quoted)

CutText(cut) ==
    IF cut = "&&" THEN <<"&", "&">> ELSE IF cut = "||" THEN <<"|", "|">>
    ELSE IF cut = "" \/ cut = "(" THEN <<>> ELSE <<cut>>

FormText(form) ==
    IF form.cut = "("
    THEN <<"(">> \o Blank(form.sp) \o TermsText(form.terms, form.sp, form.quoted)
    ELSE TermsText(form.terms, form.sp, form.quoted)
            \o (IF form.cut = "" \/ form.terms = <<>> THEN <<>> ELSE Blank(form.sp))
            \o CutText(form.cut)

\* parse_pattern on the text of a form
SyntaxInit ==
    /\ MatchIdle /\ SelectIdle /\ LoadIdle /\ NotifyIdle /\ IngestIdle /\ PipeIdle /\ ClockIdle /\ TitleIdle
    /\ scanned = None
    /\ \E sp \in BOOLEAN, quoted \in BOOLEAN :
          \/ \E n \in 1..MaxChain :
                \E first \in FirstTerms, rest \in [1..(n - 1) -> LaterTerms] :
                    chain = Form(<<first>> \o rest, sp, quoted, "")
          \/ \E first \in FirstTerms, cut \in Cuts : chain = Form(<<first>>, sp, quoted, cut)
          \/ \E first \in FirstTerms, next \in LaterTerms, cut \in Cuts :
                chain = Form(<<first, next>>, sp, quoted, cut)
          \/ \E cut \in Cuts \ {"("} : chain = Form(<<>>, sp, quoted, cut)
          \/ chain = Form(<<>>, sp, quoted, "")
    /\ source = FormText(chain)

SpecSyntax == SyntaxInit /\ [][ParseNext]_vars

\* ------------------------------------------------------------------------
\* Claims about the parser (checked under SpecParse)
\* ------------------------------------------------------------------------
Parsed == scanned # None /\ scanned[1].op = "parse_pattern"
KeywordScanned == scanned # None /\ scanned[1].op = "keyword"

FactorAst(f) == Exact(f.kwd)

\* the left fold (((f1 op1 f2) op2 f3) ... fn) of a chain; a parenthesised
\* factor stands for the left fold of its inner chain
RECURSIVE LeftFold(_)
LeftFold(links) ==
    LET l == links[Len(links)]
        ast == IF l.f.inner = <<>> THEN FactorAst(l.f) ELSE LeftFold(l.f.inner)
        front == SubSeq(links, 1, Len(links) - 1)
    IN  IF l.op = "" THEN ast
        ELSE IF l.op = "And" THEN And(LeftFold(front), ast)
        ELSE Or(LeftFold(front), ast)

\* C1: '&&' and '||' have equal precedence and associate to the left: the
\* AST of a chain f1 op1 f2 ... fn is its left fold, and a parenthesised
\* sub-pattern is one factor of the chain.
C1_LeftFold ==
    (Parsed /\ chain # NoChain) =>
        /\ scanned[1].res.ok
        /\ scanned[1].res.val = LeftFold(chain.links)

\* "a || b && (a || b)" has been parsed: And(Or(a, b), Or(a, b))
C1_Witness ==
    /\ Parsed
    /\ source = <<"a", "|", "|", "b", "&", "&", "(", "a", "|", "|", "b", ")">>
    /\ scanned[1].res.val =
           And(Or(Exact(<<"a">>), Exact(<<"b">>)), Or(Exact(<<"a">>), Exact(<<"b">>)))

KeywordTerminators == Whitespace \cup {"!", "|", "&", "(", ")"}

Count(seq, ch) == Cardinality({i \in 1..Len(seq) : seq[i] = ch})

\* C6: parsing succeeds only when the whole input is one pattern: nothing but
\* blanks is left after the pattern, and the parentheses balance.  Stated on
\* sources of alphanumerics, blanks, operator characters and parentheses.
C6_WholeInput ==
    (Parsed /\ scanned[1].res.ok
        /\ \A i \in 1..Len(source) : source[i] \in Alphanumeric \cup KeywordTerminators) =>
        /\ \A i \in (scanned[1].res.sc.cursor + 1)..Len(source) : is_whitespace(source[i])
        /\ Count(source, "(") = Count(source, ")")

\* the unquoted keyword a text starts with: its characters up to the first
\* blank, operator character or parenthesis
RECURSIVE KeywordRun(_)
KeywordRun(text) ==
    IF text = <<>> \/ text[1] \in KeywordTerminators THEN <<>>
    ELSE <<text[1]>> \o KeywordRun(Tail(text))

\* C7: an unquoted keyword holds alphanumeric characters only: a keyword with
\* any other character, its first included, is a syntax error.
C7_AlphanumericOnly ==
    (Parsed /\ source # <<>> /\ source[1] # Quote
        /\ \E i \in 1..Len(KeywordRun(source)) : ~is_alphanumeric(KeywordRun(source)[i]))
    => ~scanned[1].res.ok

\* the index of the quote that closes the quoted keyword a text starts with (0 if none)
ClosingQuote(text) ==
    IF \E j \in 2..Len(text) : text[j] = Quote
    THEN CHOOSE j \in 2..Len(text) :
            text[j] = Quote /\ \A i \in 2..(j - 1) : text[i] # Quote
    ELSE 0

\* C8: a quoted keyword is Exact of the characters between the quotes, the
\* cursor ends just past the closing quote, and "" is the EmptyKeyword error.
C8_QuotedKeyword ==
    (scanned # None /\ source # <<>> /\ source[1] = Quote /\ ClosingQuote(source) # 0) =>
        LET j == ClosingQuote(source)
            body == SubSeq(source, 2, j - 1)
            r == scanned[1].res
        IN  IF body = <<>> THEN ~r.ok /\ r.err = "EmptyKeyword"
            ELSE /\ KeywordScanned => r.ok /\ r.val = body /\ r.sc.cursor = j
                 /\ (Parsed /\ j = Len(source)) =>
                        r.ok /\ r.val = Exact(body) /\ r.sc.cursor = j

\* keyword() on "& " in quotes returned the two characters, cursor past the quote
C8_Witness ==
    /\ KeywordScanned
    /\ source = <<Quote, "&", " ", Quote>>
    /\ scanned[1].res.val = <<"&", " ">>
    /\ scanned[1].res.sc.cursor = 4

\* C31: a quoted keyword must be closed by a second double quote: a source
\* that opens a quote and ends without closing it is an error, for keyword()
\* and for parse_pattern.
C31_UnclosedQuote ==
    (scanned # None /\ source # <<>> /\ source[1] = Quote /\ ClosingQuote(source) = 0) =>
        ~scanned[1].res.ok

\* ------------------------------------------------------------------------
\* Pattern evaluation (rule.rs, impl Pattern)
\* ------------------------------------------------------------------------
\* char::to_lowercase on the model's alphabet
lower_char(ch) == IF ch = "A" THEN "a" ELSE IF ch = "B" THEN "b" ELSE ch
to_lowercase(s) == [i \in 1..Len(s) |-> lower_char(s[i])]

\* str::contains: the needle occurs at some offset of the haystack
contains(hay, needle) ==
    \E i \in 0..(Len(hay) - Len(needle)) : SubSeq(hay, i + 1, i + Len(needle)) = needle

\* does_string_match comparing the keyword as written, not lower-cased
RECURSIVE does_string_match_kwd_as_written(_, _)
does_string_match_kwd_as_written(p, s) ==
    CASE p.kind = "Exact" -> contains(to_lowercase(s), p.kwd)
      [] p.kind = "Or" -> does_string_match_kwd_as_written(p.p1, s)
                            \/ does_string_match_kwd_as_written(p.p2, s)
      [] p.kind = "And" -> does_string_match_kwd_as_written(p.p1, s)
                            /\ does_string_match_kwd_as_written(p.p2, s)
      [] p.kind = "Not" -> ~does_string_match_kwd_as_written(p.p, s)

RECURSIVE does_string_match(_, _)
does_string_match(p, s) ==
    CASE p.kind = "Exact" -> contains(to_lowercase(s), to_lowercase(p.kwd))
      [] p.kind = "Or" -> does_string_match(p.p1, s) \/ does_string_match(p.p2, s)
      [] p.kind = "And" -> does_string_match(p.p1, s) /\ does_string_match(p.p2, s)
      [] p.kind = "Not" -> ~does_string_match(p.p, s)

\* does_string_option_match looking through double negations on an absent field
RECURSIVE does_string_option_match_by_meaning(_, _)
does_string_option_match_by_meaning(p, s) ==
    IF s # None THEN does_string_match(p, s[1])
    ELSE IF p.kind = "Not" /\ p.p.kind = "Not" THEN does_string_option_match_by_meaning(p.p.p, s)
    ELSE p.kind = "Not"

\* does_string_option_match evaluating an absent field as the empty text
does_string_option_match_none_as_empty(p, s) ==
    IF s # None THEN does_string_match(p, s[1]) ELSE does_string_match(p, <<>>)

does_string_option_match(p, s) ==
    IF s # None THEN does_string_match(p, s[1]) ELSE p.kind = "Not"

\* the keywords and characters evaluator inputs are drawn from
MatchKeywords == {<<"a">>, <<"A", "b">>}
MatchChars == {"a", "b", "B"}

RECURSIVE PatternsOfSize(_)
PatternsOfSize(n) ==
    IF n = 1 THEN {Exact(k) : k \in MatchKeywords}
    ELSE {Not(p) : p \in PatternsOfSize(n - 1)}
         \cup UNION { {And(p, q) : p \in PatternsOfSize(i), q \in PatternsOfSize(n - 1 - i)}
                      \cup {Or(p, q) : p \in PatternsOfSize(i), q \in PatternsOfSize(n - 1 - i)}
                      : i \in 1..(n - 2) }
Patterns == UNION {PatternsOfSize(n) : n \in 1..MaxNodes}

\* every text over MatchChars of at most n characters
FieldTextsUpTo(n) == UNION {[1..k -> MatchChars] : k \in 0..n}

MatchInit ==
    /\ ParseIdle /\ SelectIdle /\ LoadIdle /\ NotifyIdle /\ IngestIdle /\ PipeIdle /\ ClockIdle /\ TitleIdle
    /\ evalPattern \in Patterns
    /\ evalField \in {None} \cup {Some(t) : t \in FieldTextsUpTo(MaxText)}
    /\ verdict = None

\* evalPattern.does_string_match(s), for a present field Some(s)
DoesStringMatch ==
    /\ verdict = None
    /\ evalField # None
    /\ verdict' = Some([op |-> "does_string_match",
                        res |-> does_string_match(evalPattern, evalField[1])])
    /\ UNCHANGED <<evalPattern, evalField, parseVars, selectVars, loadVars, notifyVars, ingestVars, pipeVars, clockVars, titleVars>>

\* evalPattern.does_string_option_match(evalField)
DoesStringOptionMatch ==
    /\ verdict = None
    /\ verdict' = Some([op |-> "does_string_option_match",
                        res |-> does_string_option_match(evalPattern, evalField)])
    /\ UNCHANGED <<evalPattern, evalField, parseVars, selectVars, loadVars, notifyVars, ingestVars, pipeVars, clockVars, titleVars>>

MatchNext == DoesStringMatch \/ DoesStringOptionMatch

SpecMatch == MatchInit /\ [][MatchNext]_vars

\* ------------------------------------------------------------------------
\* Claims about the evaluator (checked under SpecMatch)
\* ------------------------------------------------------------------------
Matched == verdict # None /\ verdict[1].op = "does_string_match"
OptionMatched == verdict # None /\ verdict[1].op = "does_string_option_match"

\* t occurs in s: s is some prefix, then t, then some suffix
Occurs(t, s) ==
    \E i \in 0..Len(s), j \in 0..Len(s) :
        /\ i + Len(t) + j = Len(s)
        /\ \A n \in 1..Len(t) : s[i + n] = t[n]

\* the truth value of a pattern on a text, by the truth table of each operator
RECURSIVE Holds(_, _)
Holds(p, s) ==
    IF p.kind = "Exact" THEN Occurs(to_lowercase(p.kwd), to_lowercase(s))
    ELSE IF p.kind = "Not" THEN Holds(p.p, s) = FALSE
    ELSE LET l == Holds(p.p1, s)
             r == Holds(p.p2, s)
         IN  IF p.kind = "And" THEN <<l, r>> = <<TRUE, TRUE>> ELSE <<l, r>> # <<FALSE, FALSE>>

\* C2: on an absent field does_string_option_match is true exactly when the
\* outermost node is Not; on a present field it is does_string_match.
C2_AbsentField ==
    OptionMatched =>
        IF evalField = None THEN verdict[1].res = (evalPattern.kind = "Not")
        ELSE verdict[1].res = does_string_match(evalPattern, evalField[1])

\* Not(And(a, Ab)) evaluated on an absent field: true, though its operand is not Exact
C2_Witness ==
    /\ OptionMatched
    /\ evalField = None
    /\ evalPattern = Not(And(Exact(<<"a">>), Exact(<<"A", "b">>)))
    /\ verdict[1].res = TRUE

\* C3: does_string_match is the boolean semantics: Exact(k) is case-insensitive
\* substring containment, And conjunction, Or disjunction, Not negation.
C3_BooleanSemantics ==
    Matched => verdict[1].res = Holds(evalPattern, evalField[1])

\* Or(Not(a), Ab) evaluated on "aB": true by the keyword Ab, matched in another case
C3_Witness ==
    /\ Matched
    /\ evalPattern = Or(Not(Exact(<<"a">>)), Exact(<<"A", "b">>))
    /\ evalField = Some(<<"a", "B">>)
    /\ verdict[1].res = TRUE

\* the patterns that double negation and De Morgan's laws relate to p
Rewrites(p) ==
    {Not(Not(p))}
    \cup (IF p.kind = "Not" /\ p.p.kind = "Or" THEN {And(Not(p.p.p1), Not(p.p.p2))} ELSE {})
    \cup (IF p.kind = "Not" /\ p.p.kind = "And" THEN {Or(Not(p.p.p1), Not(p.p.p2))} ELSE {})
    \cup (IF p.kind = "And" /\ p.p1.kind = "Not" /\ p.p2.kind = "Not"
          THEN {Not(Or(p.p1.p, p.p2.p))} ELSE {})

\* p and q give the same result on every text
SameOnTexts(p, q) ==
    \A t \in FieldTextsUpTo(MaxText) : does_string_match(p, t) = does_string_match(q, t)

AbsentMatched == OptionMatched /\ evalField = None

\* C39 as stated: on an absent field, a pattern and the patterns that double
\* negation and De Morgan's laws relate to it give the same result.
C39_AsStated ==
    AbsentMatched =>
        \A q \in Rewrites(evalPattern) :
            does_string_option_match(q, None) = verdict[1].res

\* C39: on an absent field the result follows the outermost node and not
\* the meaning: a pattern and a pattern that double negation or De Morgan's
\* laws relate to it, which give the same result on every text, give the
\* same result on an absent field exactly when both or neither have Not as
\* their outermost node.
C39_OutermostShape ==
    AbsentMatched =>
        \A q \in Rewrites(evalPattern) :
            /\ SameOnTexts(evalPattern, q)
            /\ (does_string_option_match(q, None) = verdict[1].res)
                  <=> ((q.kind = "Not") <=> (evalPattern.kind = "Not"))

\* Not(Or(a, Ab)) matched an absent field, which And(Not(a), Not(Ab)) does not
C39_Witness ==
    /\ AbsentMatched
    /\ evalPattern = Not(Or(Exact(<<"a">>), Exact(<<"A", "b">>)))
    /\ verdict[1].res = TRUE
    /\ ~does_string_option_match(And(Not(Exact(<<"a">>)), Not(Exact(<<"A", "b">>))), None)

\* ------------------------------------------------------------------------
\* Rule, Post, Title and the two Subject implementations (rule.rs, models.rs)
\* ------------------------------------------------------------------------
PatternAndSource(src, p) == [source |-> src, pattern |-> p]

Rule_new ==
    [name |-> None, link_flair_pattern |-> None, product_type_pattern |-> None,
     description_pattern |-> None, price_min_dollars |-> None, price_max_dollars |-> None]

\* Post::is_match rejecting a listing without flair
post_is_match_flair_required(post, rule) ==
    IF rule.link_flair_pattern # None
    THEN does_string_option_match(rule.link_flair_pattern[1].pattern, post.link_flair_text)
    ELSE post.link_flair_text # None

\* impl Subject for Post
post_is_match(post, rule) ==
    IF rule.link_flair_pattern # None
    THEN does_string_option_match(rule.link_flair_pattern[1].pattern, post.link_flair_text)
    ELSE TRUE

\* Title::price, in tenths of a dollar.  The code computes
\* dollars + 0.1 * cents in f64 and compares it with an integer bound; the
\* comparison with 10 * bound in integers has the same outcome: 0.1 * cents is
\* exact when cents is a multiple of ten (fl(0.1) * 10k rounds to k), and
\* otherwise the sum is at least 0.1 away from every integer.
price(title) == 10 * title.price_dollars + title.price_cents

\* Title::is_match with exclusive price bounds
title_is_match_exclusive(title, rule) ==
    IF rule.product_type_pattern # None
          /\ ~does_string_match(rule.product_type_pattern[1].pattern, title.product_type)
    THEN FALSE
    ELSE IF rule.description_pattern # None
          /\ ~does_string_match(rule.description_pattern[1].pattern, title.description)
    THEN FALSE
    ELSE IF rule.price_min_dollars # None /\ 10 * rule.price_min_dollars[1] >= price(title)
    THEN FALSE
    ELSE IF rule.price_max_dollars # None /\ price(title) >= 10 * rule.price_max_dollars[1]
    THEN FALSE
    ELSE TRUE

\* impl Subject for Title
title_is_match(title, rule) ==
    IF rule.product_type_pattern # None
          /\ ~does_string_match(rule.product_type_pattern[1].pattern, title.product_type)
    THEN FALSE
    ELSE IF rule.description_pattern # None
          /\ ~does_string_match(rule.description_pattern[1].pattern, title.description)
    THEN FALSE
    ELSE IF rule.price_min_dollars # None /\ 10 * rule.price_min_dollars[1] > price(title)
    THEN FALSE
    ELSE IF rule.price_max_dollars # None /\ price(title) > 10 * rule.price_max_dollars[1]
    THEN FALSE
    ELSE TRUE

\* get_matching_rule returning the last matching rule instead of the first
RECURSIVE last_matching_from(_, _, _, _)
last_matching_from(rules, post, title, i) ==
    IF i < 1 THEN None
    ELSE IF post_is_match(post, rules[i]) /\ title_is_match(title, rules[i])
    THEN Some(rules[i])
    ELSE last_matching_from(rules, post, title, i - 1)
get_last_matching_rule(rules, post, title) ==
    last_matching_from(rules, post, title, Len(rules))

\* the for loop of get_matching_rule, from rule i on
RECURSIVE matching_rule_from(_, _, _, _)
matching_rule_from(rules, post, title, i) ==
    IF i > Len(rules) THEN None
    ELSE IF post_is_match(post, rules[i]) /\ title_is_match(title, rules[i])
    THEN Some(rules[i])
    ELSE matching_rule_from(rules, post, title, i + 1)

get_matching_rule(rules, post, title) == matching_rule_from(rules, post, title, 1)

\* ------------------------------------------------------------------------
\* Inputs of get_matching_rule
\* ------------------------------------------------------------------------
Pat(k) == Some(PatternAndSource(k, Exact(k)))
NotPat(k) == Some(PatternAndSource(<<"!">> \o k, Not(Exact(k))))

RulePool ==
    { Rule_new,
      [Rule_new EXCEPT !.link_flair_pattern = Pat(<<"a">>)],
      [Rule_new EXCEPT !.link_flair_pattern = NotPat(<<"a">>)],
      [Rule_new EXCEPT !.product_type_pattern = Pat(<<"a">>)],
      [Rule_new EXCEPT !.description_pattern = Pat(<<"b">>)],
      [Rule_new EXCEPT !.price_min_dollars = Some(2)],
      [Rule_new EXCEPT !.price_max_dollars = Some(1)],
      [Rule_new EXCEPT !.link_flair_pattern = Pat(<<"a">>),
                       !.product_type_pattern = Pat(<<"a">>),
                       !.price_max_dollars = Some(2)] }

\* the rules of a rule file are told apart by their names: "r1", "r2", ...
RuleName(i) == Some(<<"r", <<"1", "2", "3", "4", "5", "6", "7", "8", "9">>[i]>>)
RuleLists ==
    UNION { { [i \in 1..n |-> [pool[i] EXCEPT !.name = RuleName(i)]] : pool \in [1..n -> RulePool] }
            : n \in 0..MaxRules }

Posts ==
    { [id |-> <<"p">>, link_flair_text |-> flair, title |-> <<>>]
        : flair \in {None, Some(<<"a">>), Some(<<"b">>)} }
Titles ==
    { [post_id |-> <<"p">>, product_type |-> ty, description |-> desc,
       price_dollars |-> pr[1], price_cents |-> pr[2], extra_details |-> None]
        : ty \in {<<"a">>, <<"b">>}, desc \in {<<"a">>, <<"b">>},
          pr \in {<<1, 0>>, <<1, 5>>, <<2, 0>>, <<2, 5>>} }

SelectInit ==
    /\ ParseIdle /\ MatchIdle /\ LoadIdle /\ NotifyIdle /\ IngestIdle /\ PipeIdle /\ ClockIdle /\ TitleIdle
    /\ rulesArg \in RuleLists
    /\ postArg \in {Some(p) : p \in Posts}
    /\ titleArg \in {Some(t) : t \in Titles}
    /\ selected = None

\* rulesArg.get_matching_rule(&post, &title)
GetMatchingRule ==
    /\ selected = None
    /\ selected' = Some([res |-> get_matching_rule(rulesArg, postArg[1], titleArg[1])])
    /\ UNCHANGED <<rulesArg, postArg, titleArg, parseVars, matchVars, loadVars, notifyVars, ingestVars, pipeVars, clockVars, titleVars>>

SelectNext == GetMatchingRule

SpecSelect == SelectInit /\ [][SelectNext]_vars

\* ------------------------------------------------------------------------
\* Claims about rule selection (checked under SpecSelect)
\* ------------------------------------------------------------------------
\* the indices of the rules both of whose predicates hold
BothHold ==
    { i \in 1..Len(rulesArg) :
        post_is_match(postArg[1], rulesArg[i]) /\ title_is_match(titleArg[1], rulesArg[i]) }

\* C4: get_matching_rule returns the rule of smallest index whose
\* listing-level and title-level predicates both hold, and none exactly when
\* no rule satisfies both.
C4_FirstMatchWins ==
    selected # None =>
        IF BothHold = {} THEN selected[1].res = None
        ELSE \E i \in BothHold :
                /\ \A j \in BothHold : i <= j
                /\ selected[1].res = Some(rulesArg[i])

\* two different rules both match the listing, and the first is returned
C4_Witness ==
    /\ selected # None
    /\ BothHold = {1, 2}
    /\ rulesArg[1].link_flair_pattern # rulesArg[2].link_flair_pattern
    /\ selected[1].res = Some(rulesArg[1])

\* ------------------------------------------------------------------------
\* Fingerprints (Pattern::hash, Rule::hash).  A hasher is the sequence of
\* what was fed to it; an item of it is a character, the 16 bytes of a
\* digest, or the 8 bytes of an i64.  md5 and base64 are functions of the
\* bytes fed and of nothing else: a digest is represented by the stream it
\* was computed from.
\* ------------------------------------------------------------------------
Item(tag, ch, n, fed) == [tag |-> tag, ch |-> ch, n |-> n, fed |-> fed]
finalize(hasher) == Item("md5", "", 0, hasher)

\* Hasher::update takes bytes, and the bytes of a digest can be those of a
\* text: md5("t0t") is 4e5e287d5b242519caa7106d60300777, the UTF-8 encoding
\* of 14 characters, none of them a quote.  DigestChars stands for these 14
\* characters where they occur in a text.
DigestChars == "4e5e287d5b242519caa7106d60300777"
DigestKeyword == <<"t", "0", "t">>
as_bytes(ch) ==
    IF ch = DigestChars
    THEN finalize([i \in 1..Len(DigestKeyword) |-> Item("char", DigestKeyword[i], 0, <<>>)])
    ELSE Item("char", ch, 0, <<>>)

update_str(hasher, str) == hasher \o [i \in 1..Len(str) |-> as_bytes(str[i])]
update_bytes(hasher, digest) == hasher \o <<digest>>
bytes_of(n) == Item("i64", "", n, <<>>)
encode(digest) == Item("base64", "", 0, <<digest>>)

RECURSIVE pattern_hash(_)
pattern_hash(p) ==
    IF p.kind = "Exact" THEN finalize(update_str(<<>>, p.kwd))
    ELSE IF p.kind = "Or"
    THEN finalize(update_bytes(update_bytes(update_str(<<>>, <<"|", "|">>),
                                            pattern_hash(p.p1)), pattern_hash(p.p2)))
    ELSE IF p.kind = "And"
    THEN finalize(update_bytes(update_bytes(update_str(<<>>, <<"&", "&">>),
                                            pattern_hash(p.p1)), pattern_hash(p.p2)))
    ELSE finalize(update_bytes(update_str(<<>>, <<"!">>), pattern_hash(p.p)))

\* what Rule::hash feeds for one field
hash_name(rule) == IF rule.name # None THEN update_str(<<>>, rule.name[1]) ELSE <<>>
hash_pattern(field) == IF field # None THEN <<pattern_hash(field[1].pattern)>> ELSE <<>>
hash_source(field) == IF field # None THEN update_str(<<>>, field[1].source) ELSE <<>>
hash_bound(bound) == IF bound # None THEN <<bytes_of(bound[1])>> ELSE <<>>

\* Rule::hash fed with the pattern source strings instead of the ASTs' digests
rule_hash_of_sources(rule) ==
    encode(finalize(hash_name(rule)
                    \o hash_source(rule.link_flair_pattern)
                    \o hash_source(rule.product_type_pattern)
                    \o hash_source(rule.description_pattern)
                    \o hash_bound(rule.price_min_dollars)
                    \o hash_bound(rule.price_max_dollars)))

rule_hash(rule) ==
    encode(finalize(hash_name(rule)
                    \o hash_pattern(rule.link_flair_pattern)
                    \o hash_pattern(rule.product_type_pattern)
                    \o hash_pattern(rule.description_pattern)
                    \o hash_bound(rule.price_min_dollars)
                    \o hash_bound(rule.price_max_dollars)))

\* ------------------------------------------------------------------------
\* Rule definitions and their compilation (Rule::parse_json,
\* Rules::read_from_file), and the startup write of the rules (write_rules)
\* ------------------------------------------------------------------------
\* serde_json::Value, as far as parse_json tells values apart
JStr(str) == [ty |-> "String", str |-> str, num |-> 0]
JNum(n) == [ty |-> "Number", str |-> <<>>, num |-> n]
as_str(v) == IF v.ty = "String" THEN Some(v.str) ELSE None
as_i64(v) == IF v.ty = "Number" THEN Some(v.num) ELSE None

RuleOk(rule) == [ok |-> TRUE, rule |-> rule, err |-> <<>>]
RuleErr(e) == [ok |-> FALSE, rule |-> Rule_new, err |-> e]

\* one pattern field of parse_json: the field is absent, or not a string, or
\* does not parse, or gives a PatternAndSource
pattern_field(v) ==
    IF v = None THEN [ok |-> TRUE, val |-> None, err |-> <<>>]
    ELSE IF as_str(v[1]) = None THEN [ok |-> FALSE, val |-> None, err |-> <<"BadValue">>]
    ELSE Only({ IF parsed.ok
                THEN [ok |-> TRUE, val |-> Some(PatternAndSource(as_str(v[1])[1], parsed.val)),
                      err |-> <<>>]
                ELSE [ok |-> FALSE, val |-> None, err |-> <<parsed.err, parsed.exp>>]
                : parsed \in {parse_pattern(as_str(v[1])[1])} })

parse_json(val) ==
    IF ~val.object THEN RuleErr(<<"NotAnObject">>)
    ELSE IF val.name # None /\ as_str(val.name[1]) = None THEN RuleErr(<<"BadValue", "name">>)
    ELSE LET flair == pattern_field(val.link_flair_pattern)
             product == pattern_field(val.product_type_pattern)
             description == pattern_field(val.description_pattern)
         IN  IF ~flair.ok THEN RuleErr(flair.err \o <<"link_flair_pattern">>)
             ELSE IF ~product.ok THEN RuleErr(product.err \o <<"product_type_pattern">>)
             ELSE IF ~description.ok THEN RuleErr(description.err \o <<"description_pattern">>)
             ELSE IF val.price_min # None /\ as_i64(val.price_min[1]) = None
             THEN RuleErr(<<"BadValue", "price_min">>)
             ELSE IF val.price_max # None /\ as_i64(val.price_max[1]) = None
             THEN RuleErr(<<"BadValue", "price_max">>)
             ELSE RuleOk([name |-> IF val.name # None THEN as_str(val.name[1]) ELSE None,
                          link_flair_pattern |-> flair.val,
                          product_type_pattern |-> product.val,
                          description_pattern |-> description.val,
                          price_min_dollars |->
                              IF val.price_min # None THEN as_i64(val.price_min[1]) ELSE None,
                          price_max_dollars |->
                              IF val.price_max # None THEN as_i64(val.price_max[1]) ELSE None])

\* the for loop of read_from_file, from definition i on, `rules` compiled so far
RECURSIVE read_rules_from(_, _, _)
read_rules_from(contents, i, rules) ==
    IF i > Len(contents) THEN [ok |-> TRUE, rules |-> rules, err |-> <<>>]
    ELSE Only({ IF r.ok THEN read_rules_from(contents, i + 1, Append(rules, r.rule))
                ELSE [ok |-> FALSE, rules |-> <<>>, err |-> <<"Rule">> \o r.err]
                : r \in {parse_json(contents[i])} })

read_from_file(file) ==
    IF file.kind = "unreadable" THEN [ok |-> FALSE, rules |-> <<>>, err |-> <<"Io">>]
    ELSE IF file.kind = "not_json" THEN [ok |-> FALSE, rules |-> <<>>, err |-> <<"Json">>]
    ELSE IF file.kind = "not_array"
    THEN [ok |-> FALSE, rules |-> <<>>, err |-> <<"Other", "JSON should be an array">>]
    ELSE read_rules_from(file.contents, 1, <<>>)

\* the values insert_rule binds to its INSERT statement
insert_rule(rule) ==
    [id |-> rule_hash(rule),
     name |-> rule.name,
     link_flair_pattern |->
        IF rule.link_flair_pattern # None THEN Some(rule.link_flair_pattern[1].source) ELSE None,
     product_type_pattern |->
        IF rule.product_type_pattern # None THEN Some(rule.product_type_pattern[1].source) ELSE None,
     description_pattern |->
        IF rule.description_pattern # None THEN Some(rule.description_pattern[1].source) ELSE None,
     price_min |-> rule.price_min_dollars,
     price_max |-> rule.price_max_dollars]

\* ------------------------------------------------------------------------
\* Rule files
\* ------------------------------------------------------------------------
EmptyDef ==
    [object |-> TRUE, name |-> None, link_flair_pattern |-> None, product_type_pattern |-> None,
     description_pattern |-> None, price_min |-> None, price_max |-> None]

FlairSources == {<<"a">>, <<Quote, "a", Quote>>, <<" ", "a">>, <<"(">>}

GoodDefs ==
    { [EmptyDef EXCEPT !.name = name, !.link_flair_pattern = flair,
                       !.product_type_pattern = product, !.price_min = min]
        : name \in {None, Some(JStr(<<"n">>))},
          flair \in {None} \cup {Some(JStr(src)) : src \in FlairSources},
          product \in {None, Some(JStr(<<"a">>))},
          min \in {None, Some(JNum(1))} }

BadDefs ==
    { [EmptyDef EXCEPT !.object = FALSE],
      [EmptyDef EXCEPT !.link_flair_pattern = Some(JNum(1))],
      [EmptyDef EXCEPT !.description_pattern = Some(JStr(<<"a", "&">>))],
      [EmptyDef EXCEPT !.price_max = Some(JStr(<<"1">>))] }

Defs == GoodDefs \cup BadDefs

RuleFile(kind, defs) == [kind |-> kind, contents |-> defs]

LoadInit ==
    /\ ParseIdle /\ MatchIdle /\ SelectIdle /\ NotifyIdle /\ IngestIdle /\ PipeIdle /\ ClockIdle /\ TitleIdle
    /\ \/ \E kind \in {"unreadable", "not_json", "not_array"} :
             ruleFile = Some(RuleFile(kind, <<>>))
       \/ \E n \in 0..MaxDefs : \E defs \in [1..n -> Defs] :
             ruleFile = Some(RuleFile("array", defs))
    /\ ruleSet = None
    /\ ruleInserts = <<>>
    /\ startup = "idle"

\* Rules::read_from_file(filename)
ReadFromFile ==
    /\ startup = "idle"
    /\ LET read == read_from_file(ruleFile[1])
       IN  /\ ruleSet' = Some(read)
           /\ startup' = IF read.ok THEN "loaded" ELSE "load_failed"
    /\ UNCHANGED <<ruleFile, ruleInserts, parseVars, matchVars, selectVars, notifyVars, ingestVars, pipeVars, clockVars, titleVars>>

\* write_rules(&db, &rules): insert_rule for each rule in order; the first
\* failing statement ends it (done = the number of statements that succeeded)
WriteRules ==
    /\ startup = "loaded"
    /\ \E done \in 0..Len(ruleSet[1].rules) :
          /\ ruleInserts' = [i \in 1..done |-> insert_rule(ruleSet[1].rules[i])]
          /\ startup' = IF done = Len(ruleSet[1].rules) THEN "rules_written" ELSE "write_failed"
    /\ UNCHANGED <<ruleFile, ruleSet, parseVars, matchVars, selectVars, notifyVars, ingestVars, pipeVars, clockVars, titleVars>>

LoadNext == ReadFromFile \/ WriteRules

SpecLoad == LoadInit /\ [][LoadNext]_vars

\* ------------------------------------------------------------------------
\* Claims about fingerprints (checked under SpecLoad)
\* ------------------------------------------------------------------------
\* the parsed AST of a pattern field, None for an absent field
Ast(field) == IF field = None THEN None ELSE Some(field[1].pattern)

\* rules i and j of the rule set have equal names, ASTs and bounds
SameMeaning(i, j) ==
    LET ri == ruleSet[1].rules[i]
        rj == ruleSet[1].rules[j]
    IN  /\ ri.name = rj.name
        /\ Ast(ri.link_flair_pattern) = Ast(rj.link_flair_pattern)
        /\ Ast(ri.product_type_pattern) = Ast(rj.product_type_pattern)
        /\ Ast(ri.description_pattern) = Ast(rj.description_pattern)
        /\ ri.price_min_dollars = rj.price_min_dollars
        /\ ri.price_max_dollars = rj.price_max_dollars

\* C5: two rule definitions whose name, pattern ASTs and price bounds are
\* equal are written with the same fingerprint, whatever the source strings
\* of their patterns.
C5_FingerprintOfMeaning ==
    \A i, j \in 1..Len(ruleInserts) :
        SameMeaning(i, j) => ruleInserts[i].id = ruleInserts[j].id

\* two definitions written  a  and  "a"  got one fingerprint
C5_Witness ==
    /\ Len(ruleInserts) = 2
    /\ SameMeaning(1, 2)
    /\ ruleInserts[1].link_flair_pattern = Some(<<" ", "a">>)
    /\ ruleInserts[2].link_flair_pattern = Some(<<Quote, "a", Quote>>)
    /\ ruleInserts[1].id = ruleInserts[2].id

\* C32: rules of different meaning get different fingerprints: two rules of
\* the rule set that differ in name, in the pattern of an attribute or in a
\* bound (a pattern carried by another attribute, an integer that is the
\* minimum in one and the maximum in the other) are written under different
\* ids, so that the rules table gets one row for each.
C32_FingerprintTellsApart ==
    \A i, j \in 1..Len(ruleInserts) :
        ~SameMeaning(i, j) => ruleInserts[i].id # ruleInserts[j].id

\* ------------------------------------------------------------------------
\* The notifier (discord.rs) and the notify loop (poll.rs)
\* ------------------------------------------------------------------------
ChannelCapacity == 32    \* mpsc::channel(32)

\* thread::sleep in poll_buildapcsales_forever blocks the worker thread it
\* runs on; with one worker thread the other spawned tasks cannot be polled
worker_blocked == singleWorker /\ ingestPc = "sleep"

NewMatch(m) == [kind |-> "NewMatch", m |-> Some(m)]
TimerFired == [kind |-> "TimerFired", m |-> None]

\* the n-th MatchingPost process_posts sends
MatchingPost(n) == [matching_rule |-> <<"r">>, post |-> n]

match_to_embed(m) == [title |-> m.matching_rule, description |-> m.post, url |-> m.post]

matches_to_message_request(matches) ==
    [content |-> Len(matches), embeds |-> [i \in 1..Len(matches) |-> match_to_embed(matches[i])]]

\* a check_ratelimit that lets every call through
check_ratelimit_skipped(rem) == TRUE

check_ratelimit(rem) == rem # 0

\* the outcomes of create_message when `rem` requests remain: its result,
\* whether it sent the POST request, and the remaining count it leaves.
\* update_ratelimits assigns the parsed X-RateLimit-Remaining header only
\* when the header is there and parses.
create_message(rem) ==
    IF ~check_ratelimit(rem)
    THEN { [result |-> "OutOfRequests", request |-> FALSE, remaining |-> rem] }
    ELSE { [result |-> e, request |-> TRUE, remaining |-> rem]
             : e \in {"Ureq", "MissingHeader", "ParseInt"} }
            \cup { [result |-> "Ok", request |-> TRUE, remaining |-> header]
                     : header \in 0..MaxRemaining }

\* notify(&matches, &mut discord_client): the call made and what it leaves
notify(matches, rem) ==
    { [call |-> [body |-> matches_to_message_request(matches), result |-> r.result,
                 request |-> r.request],
       remaining |-> r.remaining]
        : r \in create_message(rem) }

Stay(queue, rem) == [call |-> None, queue |-> queue, remaining |-> rem, state |-> "running"]

Flushed(queue, sent, cleared) ==
    [call |-> Some(sent.call),
     queue |-> IF sent.call.result = "Ok" THEN cleared ELSE queue,
     remaining |-> sent.remaining,
     state |-> IF sent.call.result = "Ok" THEN "running" ELSE "failed"]

\* the TimerFired arm without its is_empty test
timer_fired_unconditional(queue, rem) ==
    { Flushed(queue, sent, <<>>) : sent \in notify(queue, rem) }

\* the TimerFired arm without the clear() after notify
timer_fired_without_clear(queue, rem) ==
    IF queue # <<>>
    THEN { Flushed(queue, sent, queue) : sent \in notify(queue, rem) }
    ELSE { Stay(queue, rem) }

\* the TimerFired arm sending the newest queued match only
timer_fired_newest_only(queue, rem) ==
    IF queue # <<>>
    THEN { Flushed(queue, sent, <<>>) : sent \in notify(<<queue[Len(queue)]>>, rem) }
    ELSE { Stay(queue, rem) }

\* the TimerFired arm of notify_loop: the outcomes of
\*   if !queued_notifications.is_empty() { notify(..)?; queued_notifications.clear(); }
timer_fired(queue, rem) ==
    IF queue # <<>>
    THEN { Flushed(queue, sent, <<>>) : sent \in notify(queue, rem) }
    ELSE { Stay(queue, rem) }

NotifyInit ==
    /\ ParseIdle /\ MatchIdle /\ SelectIdle /\ LoadIdle /\ IngestIdle /\ PipeIdle /\ ClockIdle /\ TitleIdle
    /\ notifyChan = <<>>
    /\ queued_notifications = <<>>
    /\ remaining = 1
    /\ sinkCalls = <<>>
    /\ notifyState = "running"
    /\ clockPc = "send"
    /\ ticks = 0
    /\ forwarded = 0

\* process_posts: tx.send(NotifyMessage::NewMatch(matching_post)).await
SendNewMatch ==
    /\ notifyState = "running"
    /\ forwarded < MaxMatches
    /\ Len(notifyChan) < ChannelCapacity
    /\ notifyChan' = Append(notifyChan, NewMatch(MatchingPost(forwarded + 1)))
    /\ forwarded' = forwarded + 1
    /\ UNCHANGED <<queued_notifications, remaining, sinkCalls, notifyState, clockPc, ticks,
                   parseVars, matchVars, selectVars, loadVars, ingestVars, pipeVars, clockVars, titleVars>>

\* clock: tx.send(NotifyMessage::TimerFired).await
ClockSend ==
    /\ notifyState = "running"
    /\ ~worker_blocked
    /\ clockPc = "send"
    /\ ticks < MaxTicks
    /\ Len(notifyChan) < ChannelCapacity
    /\ notifyChan' = Append(notifyChan, TimerFired)
    /\ ticks' = ticks + 1
    /\ clockPc' = "tick"
    /\ UNCHANGED <<queued_notifications, remaining, sinkCalls, notifyState, forwarded,
                   parseVars, matchVars, selectVars, loadVars, ingestVars, pipeVars, clockVars, titleVars>>

\* clock: interval.tick().await
ClockTick ==
    /\ notifyState = "running"
    /\ ~worker_blocked
    /\ clockPc = "tick"
    /\ clockPc' = "send"
    /\ UNCHANGED <<notifyChan, queued_notifications, remaining, sinkCalls, notifyState, ticks,
                   forwarded, parseVars, matchVars, selectVars, loadVars, ingestVars, pipeVars, clockVars, titleVars>>

\* notify_loop: one turn of  while let Some(msg) = rx.recv().await { match msg .. }
NotifyRecv ==
    /\ notifyState = "running"
    /\ notifyChan # <<>>
    /\ notifyChan' = Tail(notifyChan)
    /\ IF Head(notifyChan).kind = "NewMatch"
       THEN /\ queued_notifications' = Append(queued_notifications, Head(notifyChan).m[1])
            /\ UNCHANGED <<remaining, sinkCalls, notifyState>>
       ELSE \E out \in timer_fired(queued_notifications, remaining) :
                /\ queued_notifications' = out.queue
                /\ remaining' = out.remaining
                /\ sinkCalls' = sinkCalls \o out.call
                /\ notifyState' = out.state
    /\ UNCHANGED <<clockPc, ticks, forwarded, parseVars, matchVars, selectVars, loadVars, ingestVars, pipeVars, clockVars, titleVars>>

NotifyNext == SendNewMatch \/ ClockSend \/ ClockTick \/ NotifyRecv

SpecNotify == NotifyInit /\ [][NotifyNext]_vars

\* ------------------------------------------------------------------------
\* Claims about the notify loop (checked under SpecNotify)
\* ------------------------------------------------------------------------
\* this step is notify_loop receiving a TimerFired message
TimerFiredReceived ==
    /\ notifyState = "running"
    /\ notifyChan # <<>>
    /\ Head(notifyChan) = TimerFired
    /\ notifyChan' = Tail(notifyChan)

\* the posts of the batches that were sent successfully, in order
RECURSIVE PostsSent(_)
PostsSent(calls) ==
    IF calls = <<>> THEN <<>>
    ELSE (IF Head(calls).result = "Ok"
          THEN [i \in 1..Len(Head(calls).body.embeds) |-> Head(calls).body.embeds[i].description]
          ELSE <<>>) \o PostsSent(Tail(calls))

RECURSIVE PostsInFlight(_)
PostsInFlight(chan) ==
    IF chan = <<>> THEN <<>>
    ELSE (IF Head(chan).kind = "NewMatch" THEN <<Head(chan).m[1].post>> ELSE <<>>)
            \o PostsInFlight(Tail(chan))

PostsQueued == [i \in 1..Len(queued_notifications) |-> queued_notifications[i].post]

\* the batches sent, then the queue, then the channel hold the matches
\* process_posts sent, each once and in the order sent
InOrderSent ==
    PostsSent(sinkCalls) \o PostsQueued \o PostsInFlight(notifyChan)
        = [i \in 1..forwarded |-> i]

\* the step makes exactly one sink call, with the whole queue as its batch
OneCallWithQueue ==
    /\ Len(sinkCalls') = Len(sinkCalls) + 1
    /\ SubSeq(sinkCalls', 1, Len(sinkCalls)) = sinkCalls
    /\ sinkCalls'[Len(sinkCalls')].body = matches_to_message_request(queued_notifications)

\* C9 as stated: a TimerFired received with a non-empty queue makes exactly
\* one sink call with the whole queue as its batch, in the order received,
\* and the queue is empty afterwards; no other step makes a sink call.
C9_AsStated ==
    /\ []InOrderSent
    /\ [][IF TimerFiredReceived /\ queued_notifications # <<>>
          THEN OneCallWithQueue /\ queued_notifications' = <<>>
          ELSE sinkCalls' = sinkCalls]_vars

\* C9: a TimerFired received with a non-empty queue makes exactly one sink
\* call with the whole queue as its batch, in the order received; the queue
\* is empty afterwards when the call succeeded, and when it failed the loop
\* has ended with the queue as it was; no other step makes a sink call.
C9_Batching ==
    /\ []InOrderSent
    /\ [][IF TimerFiredReceived /\ queued_notifications # <<>>
          THEN /\ OneCallWithQueue
               /\ IF sinkCalls'[Len(sinkCalls')].result = "Ok"
                  THEN queued_notifications' = <<>> /\ notifyState' = "running"
                  ELSE queued_notifications' = queued_notifications /\ notifyState' = "failed"
          ELSE sinkCalls' = sinkCalls]_vars

\* two matches queued before a tick were sent as one batch, and the queue is empty
C9_Witness ==
    /\ Len(sinkCalls) = 1
    /\ sinkCalls[1].result = "Ok"
    /\ sinkCalls[1].body = matches_to_message_request(<<MatchingPost(1), MatchingPost(2)>>)
    /\ queued_notifications = <<>>

\* C10: a TimerFired received while the queue is empty makes no sink call and
\* leaves the queue and the rate-limit state as they were.
C10_EmptyTick ==
    [][TimerFiredReceived /\ queued_notifications = <<>>
        => UNCHANGED <<sinkCalls, queued_notifications, remaining, notifyState>>]_vars

\* after a flush that left no requests, a second tick was received with the
\* queue empty: the loop still runs and no further call was made
C10_Witness ==
    /\ ticks = 2
    /\ forwarded = 1
    /\ notifyChan = <<>>
    /\ queued_notifications = <<>>
    /\ Len(sinkCalls) = 1
    /\ remaining = 0
    /\ notifyState = "running"

\* ------------------------------------------------------------------------
\* The listing source client (reddit.rs) and the ingestion loop (poll.rs)
\* ------------------------------------------------------------------------
wait_time_secs == 1      \* config.wait_time_secs

Auth(token, expires, used, rem, reset) ==
    [access_token |-> token, expires_at |-> expires, ratelimit_used |-> used,
     ratelimit_remaining |-> rem, ratelimit_reset |-> reset]

\* the expires_in of an AccessTokenResponse, in seconds
ExpiresIn == {0, 2, 3}

\* the X-Ratelimit-Used, -Remaining and -Reset headers of a listing
\* response.  They are parsed as f64: a value is given here in tenths.
Headers ==
    { [used |-> 10, remaining |-> rem, reset |-> reset]
        : rem \in {0, 5, 20}, reset \in {20, 25} }

\* f64::floor() as u64, of a non-negative value in tenths
floor_as_u64(tenths) == tenths \div 10

is_auth_expired(a, t) == IF a = None THEN TRUE ELSE a[1].expires_at < t

\* get_wait_time returning the configured interval whatever the quota
get_wait_time_fixed(a) == wait_time_secs

get_wait_time(a) ==
    IF a = None THEN wait_time_secs
    ELSE IF a[1].ratelimit_remaining = 0 THEN a[1].ratelimit_reset
    ELSE wait_time_secs

\* get_auth_payload without its expiry test
get_auth_payload_unchecked(a, t) ==
    IF a = None THEN None ELSE Some(a[1].access_token)

\* get_auth_payload: Some(token) for Ok("bearer {token}"), None for Err(Reauthenticate)
get_auth_payload(a, t) ==
    IF a = None THEN None
    ELSE IF is_auth_expired(a, t) THEN None
    ELSE Some(a[1].access_token)

\* the assignments of update_ratelimit_counts
update_ratelimit_counts(a, h) ==
    [a EXCEPT !.ratelimit_remaining = floor_as_u64(h.remaining),
              !.ratelimit_used = floor_as_u64(h.used),
              !.ratelimit_reset = floor_as_u64(h.reset)]

\* the token file holds Some(auth) when it parses as an Auth, None when it
\* is empty (File::create succeeded and the write did not)
FileOf(a) == Some(Some(a))
EmptyFile == Some(None)

IngestInit ==
    /\ ParseIdle /\ MatchIdle /\ SelectIdle /\ LoadIdle /\ NotifyIdle /\ PipeIdle /\ ClockIdle /\ TitleIdle
    /\ now = 0
    /\ auth = None
    /\ tokenFile = None
    /\ ingestPc = "start"
    /\ lastFetch = None
    /\ reported = None
    /\ sleepFor = None
    /\ tokens = 0
    /\ restarts = 0
    /\ fetches = 0
    /\ emits = 0

IngestFrame == UNCHANGED <<parseVars, matchVars, selectVars, loadVars, notifyVars, pipeVars, clockVars, titleVars>>

\* reddit_client.read_auth_from_file()?
ReadAuthFromFile ==
    /\ ingestPc = "start"
    /\ IF tokenFile = None
       THEN ingestPc' = "check" /\ auth' = auth
       ELSE IF tokenFile[1] = None
       THEN ingestPc' = "failed" /\ auth' = auth
       ELSE /\ ingestPc' = "check"
            /\ auth' = IF tokenFile[1][1].expires_at > now THEN tokenFile[1] ELSE auth
    /\ UNCHANGED <<now, tokenFile, lastFetch, reported, sleepFor, tokens, restarts, fetches, emits>>
    /\ IngestFrame

\* if reddit_client.is_auth_expired() { reddit_client.authenticate()?; }
CheckAuth ==
    /\ ingestPc = "check"
    /\ IF is_auth_expired(auth, now)
       THEN \/ /\ tokens < MaxTokens
               /\ \E expires_in \in ExpiresIn :
                     auth' = Some(Auth(tokens + 1, now + expires_in, 0, 1, 3600))
               /\ tokens' = tokens + 1
               /\ ingestPc' = "fetch"
            \/ /\ ingestPc' = "failed"
               /\ UNCHANGED <<auth, tokens>>
       ELSE /\ ingestPc' = "fetch"
            /\ UNCHANGED <<auth, tokens>>
    /\ UNCHANGED <<now, tokenFile, lastFetch, reported, sleepFor, restarts, fetches, emits>>
    /\ IngestFrame

\* reddit_client.listing_new("buildapcsales", ..)?
ListingNew ==
    /\ ingestPc = "fetch"
    /\ IF get_auth_payload(auth, now) = None
       THEN /\ ingestPc' = "failed"
            /\ UNCHANGED <<auth, tokenFile, lastFetch, reported, fetches>>
       ELSE /\ fetches' = fetches + 1
            /\ lastFetch' = Some([token |-> get_auth_payload(auth, now)[1],
                                  expires_at |-> auth[1].expires_at, at |-> now])
            /\ \/ \* send_json fails, or a header is missing or does not parse
                  /\ ingestPc' = "failed"
                  /\ UNCHANGED <<auth, tokenFile, reported>>
               \/ \E h \in Headers :
                     /\ auth' = Some(update_ratelimit_counts(auth[1], h))
                     /\ reported' = Some(h)
                     /\ \/ \* write_auth_to_file fails
                           /\ tokenFile' \in {tokenFile, EmptyFile}
                           /\ ingestPc' = "failed"
                        \/ \* the file is written; the body parses or does not
                           /\ tokenFile' = FileOf(update_ratelimit_counts(auth[1], h))
                           /\ ingestPc' \in {"emit", "failed"}
    /\ UNCHANGED <<now, sleepFor, tokens, restarts, emits>>
    /\ IngestFrame

\* write_posts(&tx, &listing).await?; let wait = get_wait_time(); thread::sleep(wait)
WritePosts ==
    /\ ingestPc = "emit"
    /\ \/ /\ emits' = emits + 1
          /\ sleepFor' = Some([wait |-> get_wait_time(auth), until |-> now + get_wait_time(auth)])
          /\ ingestPc' = "sleep"
       \/ \* a send fails: the receiver is gone
          /\ ingestPc' = "failed"
          /\ UNCHANGED <<emits, sleepFor>>
    /\ UNCHANGED <<now, auth, tokenFile, lastFetch, reported, tokens, restarts, fetches>>
    /\ IngestFrame

\* thread::sleep(wait) returns
Wake ==
    /\ ingestPc = "sleep"
    /\ now >= sleepFor[1].until
    /\ ingestPc' = "check"
    /\ UNCHANGED <<now, auth, tokenFile, lastFetch, reported, sleepFor, tokens, restarts,
                   fetches, emits>>
    /\ IngestFrame

\* a second of system time passes
TimePasses ==
    /\ now < MaxTime
    /\ now' = now + 1
    /\ UNCHANGED <<auth, tokenFile, ingestPc, lastFetch, reported, sleepFor, tokens, restarts,
                   fetches, emits>>
    /\ IngestFrame

\* the process stops and is started again; the token file stays
Restart ==
    /\ ingestPc # "off"
    /\ restarts < MaxRestarts
    /\ restarts' = restarts + 1
    /\ ingestPc' = "start"
    /\ auth' = None
    /\ sleepFor' = None
    /\ UNCHANGED <<now, tokenFile, lastFetch, reported, tokens, fetches, emits>>
    /\ IngestFrame

IngestNext == ReadAuthFromFile \/ CheckAuth \/ ListingNew \/ WritePosts \/ Wake
                \/ TimePasses \/ Restart

SpecIngest == IngestInit /\ [][IngestNext]_vars

\* ------------------------------------------------------------------------
\* Claims about the ingestion loop (checked under SpecIngest)
\* ------------------------------------------------------------------------
\* C36: no fetch is issued while the recorded remaining quota is 0 unless
\* the ingestion loop has first slept the recorded reset interval, the first
\* fetch after a restart that loads a persisted auth state included.
C36_WaitsOutQuota ==
    [][(fetches' = fetches + 1 /\ auth # None /\ auth[1].ratelimit_remaining = 0)
          => /\ sleepFor # None
             /\ sleepFor[1].wait = auth[1].ratelimit_reset
             /\ now >= sleepFor[1].until]_vars

\* the Auth the token file holds, None when there is no file or it is empty
FileAuth == IF tokenFile = None THEN None ELSE tokenFile[1]

\* the client holds a token that has not expired
TokenValid == auth # None /\ auth[1].expires_at >= now

\* C15: the wait between polls is the configured interval, unless the last
\* response reported no remaining request (the quota counted in whole
\* requests), and then it is the reported reset interval (in whole seconds);
\* without auth state it is the configured interval.
C15_WaitTime ==
    /\ get_wait_time(None) = wait_time_secs
    /\ ingestPc = "sleep" =>
          sleepFor[1].wait = IF reported[1].remaining \div 10 = 0
                             THEN reported[1].reset \div 10
                             ELSE wait_time_secs

\* the loop sleeps for the reported reset interval, not the configured one
C15_Witness ==
    /\ ingestPc = "sleep"
    /\ reported[1].remaining = 0
    /\ reported[1].reset = 25
    /\ sleepFor[1].wait = 2

\* C16: every listing request carries a token that is present and has not
\* expired; at the top of the loop an absent or expired token leads to
\* authenticate before any request, and when authenticate fails the task ends
\* without a request or an emission; a task that has ended makes none either.
C16_FetchWithValidToken ==
    /\ [](lastFetch # None => lastFetch[1].expires_at >= lastFetch[1].at)
    /\ [][/\ fetches' # fetches => ingestPc = "fetch" /\ TokenValid
          /\ (ingestPc = "check" /\ ~TokenValid /\ ingestPc' \notin {"check", "start"}) =>
                /\ fetches' = fetches /\ emits' = emits
                /\ \/ ingestPc' = "fetch" /\ tokens' = tokens + 1
                      /\ auth' # None /\ auth'[1].access_token = tokens'
                   \/ ingestPc' = "failed" /\ tokens' = tokens
          /\ ingestPc = "failed" => fetches' = fetches /\ emits' = emits]_vars

\* a second token was obtained after the first expired, and a request was
\* sent with it before it expired
C16_Witness ==
    /\ lastFetch # None
    /\ lastFetch[1].token = 2
    /\ lastFetch[1].expires_at >= lastFetch[1].at
    /\ fetches = 2
    /\ restarts = 0

\* C17: once authenticate has returned, the token the client holds is the
\* one in the token file, so that a restart before it expires loads it.
C17_TokenDurable ==
    (auth # None /\ ingestPc \notin {"off", "start"}) =>
        /\ FileAuth # None
        /\ FileAuth[1].access_token = auth[1].access_token
        /\ FileAuth[1].expires_at = auth[1].expires_at

\* ------------------------------------------------------------------------
\* Title extraction (Title::parse, models.rs).  The regex is
\*   \[(?P<type>[ \w]+)\](?P<desc>[^$]*)\$(?P<price_dollars>\d+)
\*   (\.(?P<price_cents>\d+))?(?P<extra>[^\d].*)?
\* searched for anywhere in the title, leftmost match first.
\* ------------------------------------------------------------------------
Digits == {"0", "1", "2", "3", "4", "5", "6", "7", "8", "9"}
WordChars == {"a", "b", "A", "B", "_"} \cup Digits

\* the length of the longest run of characters of `class` in text from position i
RECURSIVE RunLen(_, _, _)
RunLen(text, i, class) ==
    IF i > Len(text) THEN 0
    ELSE IF text[i] \notin class THEN 0
    ELSE 1 + RunLen(text, i + 1, class)

\* the run of characters of text from position i that are not `stop`
RECURSIVE RunUntil(_, _, _)
RunUntil(text, i, stop) ==
    IF i > Len(text) THEN 0
    ELSE IF text[i] = stop THEN 0
    ELSE 1 + RunUntil(text, i + 1, stop)

DigitValue(ch) ==
    CASE ch = "0" -> 0 [] ch = "1" -> 1 [] ch = "2" -> 2 [] ch = "3" -> 3 [] ch = "4" -> 4
      [] ch = "5" -> 5 [] ch = "6" -> 6 [] ch = "7" -> 7 [] ch = "8" -> 8 [] ch = "9" -> 9

\* the value of a string of decimal digits
RECURSIVE DecimalValue(_)
DecimalValue(digits) ==
    IF digits = <<>> THEN 0
    ELSE 10 * DecimalValue(SubSeq(digits, 1, Len(digits) - 1)) + DigitValue(digits[Len(digits)])

\* a string of digits without its leading zeros
RECURSIVE strip_zeros(_)
strip_zeros(digits) ==
    IF Len(digits) > 1 /\ digits[1] = "0" THEN strip_zeros(Tail(digits)) ELSE digits

\* str::parse::<i32>() and str::parse::<i8>() of a string of digits: None on
\* overflow.  The value is computed only when it fits: a number of more than
\* ten digits, or of ten digits above 2147483647, is no i32.
parse_i32(digits) ==
    Only({ IF Len(d) > 10 THEN None
           ELSE IF Len(d) = 10
                   /\ \/ DecimalValue(SubSeq(d, 1, 9)) > 214748364
                      \/ DecimalValue(SubSeq(d, 1, 9)) = 214748364 /\ DigitValue(d[10]) > 7
           THEN None
           ELSE Some(DecimalValue(d))
             : d \in {strip_zeros(digits)} })
parse_i8(digits) ==
    Only({ IF Len(d) > 3 THEN None
           ELSE IF DecimalValue(d) > 127 THEN None
           ELSE Some(DecimalValue(d))
             : d \in {strip_zeros(digits)} })

\* str::trim
RECURSIVE trim_start(_)
trim_start(text) ==
    IF text # <<>> /\ is_whitespace(text[1]) THEN trim_start(Tail(text)) ELSE text
RECURSIVE trim_end(_)
trim_end(text) ==
    IF text # <<>> /\ is_whitespace(text[Len(text)])
    THEN trim_end(SubSeq(text, 1, Len(text) - 1))
    ELSE text
\* str::trim_start in the place of str::trim
trim_leading_only(text) == trim_start(text)

trim(text) == trim_end(trim_start(text))

\* the capture groups of the match of the regex that starts at position i
\* of the title, None when there is no match there.  No group can end
\* elsewhere: ']' is not in [ \w], '$' is not in [^$], and what follows the
\* greedy \d+ is optional.
captures_at(title, i) ==
    IF i > Len(title) THEN None
    ELSE IF title[i] # "[" THEN None
    ELSE LET n1 == RunLen(title, i + 1, {" "} \cup WordChars)
             j == i + 1 + n1
         IN  IF n1 = 0 \/ j > Len(title) THEN None
             ELSE IF title[j] # "]" THEN None
             ELSE LET n2 == RunUntil(title, j + 1, "$")
                      k == j + 1 + n2
                      n3 == RunLen(title, k + 1, Digits)
                      l == k + 1 + n3
                      n4 == IF l <= Len(title) /\ title[l] = "."
                            THEN RunLen(title, l + 1, Digits) ELSE 0
                      m == IF n4 > 0 THEN l + 1 + n4 ELSE l
                  IN  IF k > Len(title) \/ n3 = 0 THEN None
                      ELSE Some([type |-> SubSeq(title, i + 1, j - 1),
                                 desc |-> SubSeq(title, j + 1, k - 1),
                                 price_dollars |-> SubSeq(title, k + 1, l - 1),
                                 price_cents |->
                                    IF n4 > 0 THEN Some(SubSeq(title, l + 1, m - 1)) ELSE None,
                                 extra |->
                                    IF m <= Len(title) THEN Some(SubSeq(title, m, Len(title)))
                                    ELSE None])

\* re.captures(title): the leftmost match, searched from position i on
RECURSIVE captures_from(_, _)
captures_from(title, i) ==
    IF i > Len(title) THEN None
    ELSE IF captures_at(title, i) # None THEN captures_at(title, i)
    ELSE captures_from(title, i + 1)

\* the Title built from the capture groups: None when a price does not parse
title_of_captures(m, post_id) ==
    Only({ IF dollars = None \/ cents = None THEN None
           ELSE Some([post_id |-> post_id,
                      product_type |-> trim(m.type),
                      description |-> trim(m.desc),
                      price_dollars |-> dollars[1],
                      price_cents |-> cents[1],
                      extra_details |->
                          IF m.extra = None THEN None ELSE Some(trim(m.extra[1]))])
             : dollars \in {parse_i32(m.price_dollars)},
               cents \in {IF m.price_cents = None THEN Some(0)
                          ELSE parse_i8(m.price_cents[1])} })

Title_parse(title, post_id) ==
    Only({ IF found = None THEN None ELSE title_of_captures(found[1], post_id)
             : found \in {captures_from(title, 1)} })

\* ------------------------------------------------------------------------
\* The pipeline (poll.rs): ingestion, process_posts, storage
\* ------------------------------------------------------------------------
ListingLimit == 10       \* ListingRequest { count: 0, limit: 10 }

\* a send that drops the message when the channel is full
channel_send_dropping(chan, msg) ==
    IF Len(chan) < ChannelCapacity THEN Some(Append(chan, msg)) ELSE Some(chan)

\* a send on a channel that never has a free slot
channel_send_never_free(chan, msg) == None

\* tx.send(msg).await on a bounded channel: Some(channel after the send),
\* None while the channel is full (the sender stays suspended)
channel_send(chan, msg) ==
    IF Len(chan) < ChannelCapacity THEN Some(Append(chan, msg)) ELSE None

\* a sender that does not see that the receiver was dropped
receiver_never_dropped(pc) == FALSE

\* the receiver of the post channel is dropped with the task that owns it
receiver_dropped(pc) == pc = "failed"

\* insert_post that reports every post as new
insert_post_always_new(posts, post) ==
    [is_new |-> TRUE, posts |-> posts \cup {post.id}]

\* insert_rule_match that stores nothing
insert_rule_match_skipped(matches, post, rule) == matches

\* INSERT OR IGNORE INTO posts, id being the primary key
insert_post(posts, post) ==
    [is_new |-> post.id \notin posts, posts |-> posts \cup {post.id}]

\* INSERT OR IGNORE INTO parsed_titles: ignored when the post has a row
insert_parsed_title(titles, title) ==
    LET is_new == \A row \in titles : row.post_id # title.post_id
    IN  [is_new |-> is_new, titles |-> IF is_new THEN titles \cup {title} ELSE titles]

\* INSERT OR IGNORE INTO rule_matches (rule_id, post_id, created_utc)
insert_rule_match(matches, post, rule) ==
    Append(matches, [rule_id |-> rule_hash(rule), post_id |-> post.id])

Storage(posts, titles, matches) == [posts |-> posts, titles |-> titles, matches |-> matches]

Outcome(db, result, pending) == [db |-> db, result |-> result, pending |-> pending]

Discards == {"duplicate_post", "no_title", "duplicate_title", "no_rule"}

\* a `continue` that returns an error from process_posts instead
Skipped_raising(db, why) == Outcome(db, "raised", None)

\* the `continue` of a discard point: nothing to send, the loop goes on
Skipped(db, why) == Outcome(db, why, None)

\* one iteration of the while loop of process_posts on a received post, up
\* to the send: the storage it leaves, how it ended, and the MatchingPost to
\* send.  Every storage call may return an error instead.
process_post(db, post, rules) ==
    UNION { {Outcome(db, "error", None)} \cup
            IF ~inserted.is_new
            THEN {Skipped(Storage(inserted.posts, db.titles, db.matches), "duplicate_post")}
            ELSE IF title = None
            THEN {Skipped(Storage(inserted.posts, db.titles, db.matches), "no_title")}
            ELSE UNION { {Outcome(db1, "error", None)} \cup
                         IF ~titled.is_new THEN {Skipped(db2, "duplicate_title")}
                         ELSE IF matching_rule = None THEN {Skipped(db2, "no_rule")}
                         ELSE { Outcome(db2, "error", None),
                                Outcome(Storage(db2.posts, db2.titles,
                                                insert_rule_match(db2.matches, post, matching_rule[1])),
                                        "match",
                                        Some([matching_rule |-> matching_rule[1], post |-> post,
                                              title |-> title[1]])) }
                         : db1 \in {Storage(inserted.posts, db.titles, db.matches)},
                           titled \in {insert_parsed_title(db.titles, title[1])},
                           db2 \in {Storage(inserted.posts,
                                            insert_parsed_title(db.titles, title[1]).titles,
                                            db.matches)},
                           matching_rule \in {get_matching_rule(rules, post, title[1])} }
            : inserted \in {insert_post(db.posts, post)},
              title \in {Title_parse(post.title, post.id)} }

\* config.rules of the pipeline: "r1" asks for product type a at no more
\* than 1 dollar, "r2" for product type a
PipeRules ==
    << [Rule_new EXCEPT !.name = RuleName(1), !.product_type_pattern = Pat(<<"a">>),
                        !.price_max_dollars = Some(1)],
       [Rule_new EXCEPT !.name = RuleName(2), !.product_type_pattern = Pat(<<"a">>)] >>

PipePost(id, title) == [id |-> id, link_flair_text |-> None, title |-> title]

\* the posts the source serves: one that r1 and r2 match, one that no rule
\* matches, one whose title does not extract
PostPool ==
    { PipePost(1, <<"[", "a", "]", "b", "$", "1">>),
      PipePost(2, <<"[", "b", "]", "b", "$", "1">>),
      PipePost(3, <<"a", "b">>) }

Min(a, b) == IF a <= b THEN a ELSE b

PipeStart ==
    /\ outbox = <<>> /\ postChan = <<>> /\ matchPc = "recv" /\ matchPending = None
    /\ emitted = <<>> /\ received = <<>>
    /\ ingestPc = "fetch"
    /\ notifyChan = <<>> /\ queued_notifications = <<>> /\ remaining = 1
    /\ notifyState = "running" /\ clockPc = "send"

PipeInit ==
    /\ ParseIdle /\ MatchIdle /\ SelectIdle /\ LoadIdle /\ ClockIdle /\ TitleIdle
    /\ now = 0 /\ auth = None /\ tokenFile = None /\ lastFetch = None /\ reported = None
    /\ sleepFor = None /\ tokens = 0 /\ restarts = 0 /\ fetches = 0 /\ emits = 0
    /\ \E n \in 0..MaxFeed : \E posts \in [1..n -> PostPool] : feed = posts
    /\ singleWorker = FALSE
    /\ dbPosts = {} /\ dbTitles = {} /\ dbMatches = <<>>
    /\ lastOutcome = "" /\ sentMatches = <<>>
    /\ sinkCalls = <<>> /\ ticks = 0 /\ forwarded = 0
    /\ PipeStart

PipeFrame == UNCHANGED <<parseVars, matchVars, selectVars, loadVars, clockVars, titleVars>>
IngestRest == <<now, auth, tokenFile, lastFetch, reported, sleepFor, tokens, restarts,
                fetches, emits>>

\* reddit_client.listing_new("buildapcsales", ..)?: the source serves the
\* next posts, at most `limit` of them
FetchListing ==
    /\ notifyState = "running"
    /\ ingestPc = "fetch"
    /\ \/ \E k \in 0..Min(Len(feed), ListingLimit) :
             /\ outbox' = SubSeq(feed, 1, k)
             /\ feed' = SubSeq(feed, k + 1, Len(feed))
             /\ ingestPc' = "emit"
       \/ /\ ingestPc' = "failed"
          /\ UNCHANGED <<feed, outbox>>
    /\ UNCHANGED <<postChan, matchPc, matchPending, dbPosts, dbTitles, dbMatches, emitted,
                   received, lastOutcome, sentMatches, singleWorker, IngestRest, notifyVars, clockVars, titleVars>>
    /\ PipeFrame

\* write_posts: one tx.send(post.clone()).await?, or its return when every
\* post is sent, followed by thread::sleep(wait)
SendPost ==
    /\ notifyState = "running"
    /\ ingestPc = "emit"
    /\ IF outbox = <<>>
       THEN /\ ingestPc' = "sleep"
            /\ UNCHANGED <<outbox, postChan, emitted>>
       ELSE IF receiver_dropped(matchPc)
       THEN /\ ingestPc' = "failed"
            /\ UNCHANGED <<outbox, postChan, emitted>>
       ELSE /\ channel_send(postChan, Head(outbox)) # None
            /\ postChan' = channel_send(postChan, Head(outbox))[1]
            /\ outbox' = Tail(outbox)
            /\ emitted' = Append(emitted, Head(outbox))
            /\ ingestPc' = ingestPc
    /\ UNCHANGED <<feed, matchPc, matchPending, dbPosts, dbTitles, dbMatches, received,
                   lastOutcome, sentMatches, singleWorker, IngestRest, notifyVars, clockVars, titleVars>>
    /\ PipeFrame

\* thread::sleep(wait) returns
SleepOver ==
    /\ notifyState = "running"
    /\ ingestPc = "sleep"
    /\ ingestPc' = "fetch"
    /\ UNCHANGED <<pipeVars, IngestRest, notifyVars, clockVars, titleVars>>
    /\ PipeFrame

\* process_posts: rx.recv().await gives a post, and the loop body runs up to the send
MatchRecv ==
    /\ notifyState = "running"
    /\ ~worker_blocked
    /\ matchPc = "recv"
    /\ postChan # <<>>
    /\ postChan' = Tail(postChan)
    /\ received' = Append(received, Head(postChan))
    /\ \E out \in process_post(Storage(dbPosts, dbTitles, dbMatches), Head(postChan), PipeRules) :
          /\ dbPosts' = out.db.posts
          /\ dbTitles' = out.db.titles
          /\ dbMatches' = out.db.matches
          /\ lastOutcome' = out.result
          /\ matchPending' = out.pending
          /\ matchPc' = IF out.result \in Discards THEN "recv"
                        ELSE IF out.result = "match" THEN "send"
                        ELSE "failed"
    /\ UNCHANGED <<feed, outbox, emitted, sentMatches, singleWorker, ingestVars, notifyVars, clockVars, titleVars>>
    /\ PipeFrame

\* the sender of the post channel is dropped with the task that owns it
sender_dropped(pc) == pc = "failed"

\* process_posts: rx.recv().await gives None, the sender being dropped and
\* the channel empty; the `while let` ends and the enclosing `loop` starts
\* it again
MatchRecvClosed ==
    /\ notifyState = "running"
    /\ ~worker_blocked
    /\ matchPc = "recv"
    /\ postChan = <<>>
    /\ sender_dropped(ingestPc)
    /\ lastOutcome' = "closed"
    /\ matchPc' = "recv"
    /\ UNCHANGED <<feed, outbox, postChan, matchPending, dbPosts, dbTitles, dbMatches, emitted,
                   received, sentMatches, singleWorker, ingestVars, notifyVars, clockVars, titleVars>>
    /\ PipeFrame

\* process_posts: tx.send(NotifyMessage::NewMatch(matching_post)).await
MatchSend ==
    /\ notifyState = "running"
    /\ ~worker_blocked
    /\ matchPc = "send"
    /\ channel_send(notifyChan, NewMatch(matchPending[1])) # None
    /\ notifyChan' = channel_send(notifyChan, NewMatch(matchPending[1]))[1]
    /\ forwarded' = forwarded + 1
    /\ sentMatches' = Append(sentMatches, matchPending[1].post.id)
    /\ matchPending' = None
    /\ matchPc' = "recv"
    /\ UNCHANGED <<feed, outbox, postChan, dbPosts, dbTitles, dbMatches, emitted, received,
                   lastOutcome, singleWorker, ingestVars,
                   queued_notifications, remaining, sinkCalls, notifyState, clockPc, ticks, clockVars, titleVars>>
    /\ PipeFrame

\* the process stops and is started again with the same storage
PipeRestart ==
    /\ matchPc # "off"
    /\ restarts < MaxRestarts
    /\ restarts' = restarts + 1
    /\ outbox' = <<>> /\ postChan' = <<>> /\ matchPc' = "recv" /\ matchPending' = None
    /\ emitted' = <<>> /\ received' = <<>>
    /\ ingestPc' = "fetch"
    /\ notifyChan' = <<>> /\ queued_notifications' = <<>> /\ remaining' = 1
    /\ notifyState' = "running" /\ clockPc' = "send"
    /\ UNCHANGED <<feed, dbPosts, dbTitles, dbMatches, lastOutcome, sentMatches, singleWorker,
                   now, auth, tokenFile, lastFetch, reported, sleepFor, tokens, fetches, emits,
                   sinkCalls, ticks, forwarded>>
    /\ PipeFrame

PipeNext == FetchListing \/ SendPost \/ SleepOver \/ MatchRecv \/ MatchRecvClosed \/ MatchSend
              \/ ClockSend \/ ClockTick \/ NotifyRecv \/ PipeRestart

SpecPipeline == PipeInit /\ [][PipeNext]_vars

\* more posts than the post channel holds, none of which goes past the
\* title extraction
BacklogFeed == [i \in 1..(ChannelCapacity + 2) |-> PipePost(i, <<"a", "b">>)]

BackpressureInit ==
    /\ ParseIdle /\ MatchIdle /\ SelectIdle /\ LoadIdle /\ ClockIdle /\ TitleIdle
    /\ now = 0 /\ auth = None /\ tokenFile = None /\ lastFetch = None /\ reported = None
    /\ sleepFor = None /\ tokens = 0 /\ restarts = 0 /\ fetches = 0 /\ emits = 0
    /\ feed = BacklogFeed
    /\ singleWorker = FALSE
    /\ dbPosts = {} /\ dbTitles = {} /\ dbMatches = <<>>
    /\ lastOutcome = "" /\ sentMatches = <<>>
    /\ sinkCalls = <<>> /\ ticks = 0 /\ forwarded = 0
    /\ PipeStart

\* the two ends of the post channel in one run of the process; no post of
\* the backlog reaches the notify channel, whose tasks are left out
BackpressureNext == FetchListing \/ SendPost \/ SleepOver \/ MatchRecv \/ MatchRecvClosed

SpecBackpressure == BackpressureInit /\ [][BackpressureNext]_vars

\* the pipeline on a runtime with one worker thread
OneWorkerInit ==
    /\ ParseIdle /\ MatchIdle /\ SelectIdle /\ LoadIdle /\ ClockIdle /\ TitleIdle
    /\ now = 0 /\ auth = None /\ tokenFile = None /\ lastFetch = None /\ reported = None
    /\ sleepFor = None /\ tokens = 0 /\ restarts = 0 /\ fetches = 0 /\ emits = 0
    /\ \E n \in 0..MaxFeed : \E posts \in [1..n -> PostPool] : feed = posts
    /\ singleWorker = TRUE
    /\ dbPosts = {} /\ dbTitles = {} /\ dbMatches = <<>>
    /\ lastOutcome = "" /\ sentMatches = <<>>
    /\ sinkCalls = <<>> /\ ticks = 0 /\ forwarded = 0
    /\ PipeStart

SpecOneWorker == OneWorkerInit /\ [][PipeNext]_vars

\* C35: when the ingestion task has terminated and the post channel is
\* drained, process_posts returns: a receive that finds the channel closed
\* is not followed by another receive
C35_StopsWhenClosed == lastOutcome = "closed" => matchPc # "recv"

\* ------------------------------------------------------------------------
\* Claims about the pipeline
\* ------------------------------------------------------------------------
MatchRowsOf(id) == { i \in DOMAIN dbMatches : dbMatches[i].post_id = id }
SendsOf(id) == { i \in DOMAIN sentMatches : sentMatches[i] = id }

\* C12: over the life of the storage, restarts included, a post id has at
\* most one rule_matches row and at most one NewMatch sent for it; a post
\* whose id is already in posts is dropped before its title is parsed, so
\* the step stores no title and no match and goes back to receiving.
C12_AtMostOncePerListing ==
    /\ [](\A post \in PostPool :
            /\ Cardinality(MatchRowsOf(post.id)) <= 1
            /\ Cardinality(SendsOf(post.id)) <= 1)
    /\ [][(postChan # <<>> /\ received' = Append(received, Head(postChan))
            /\ Head(postChan).id \in dbPosts
            /\ lastOutcome' # "error")
          => /\ lastOutcome' = "duplicate_post"
             /\ dbTitles' = dbTitles /\ dbMatches' = dbMatches
             /\ matchPending' = None /\ matchPc' = "recv"]_vars

\* after a restart the post that was matched and sent before is received
\* again and dropped as a duplicate
C12_Witness ==
    /\ restarts = 1
    /\ received # <<>>
    /\ lastOutcome = "duplicate_post"
    /\ Cardinality(MatchRowsOf(received[Len(received)].id)) = 1
    /\ Cardinality(SendsOf(received[Len(received)].id)) = 1

\* the MatchingPosts that left the insert_rule_match call: the one about to
\* be sent, those in the notify channel, those queued, and the (rule, post)
\* pairs of the embeds handed to create_message
RulePostPairs(matches) ==
    { [matching_rule |-> matches[i].matching_rule, post |-> matches[i].post]
        : i \in DOMAIN matches }
ForwardedPairs ==
    RulePostPairs(matchPending)
      \cup { [matching_rule |-> notifyChan[i].m[1].matching_rule, post |-> notifyChan[i].m[1].post]
               : i \in { j \in DOMAIN notifyChan : notifyChan[j].kind = "NewMatch" } }
      \cup RulePostPairs(queued_notifications)
      \cup UNION { { [matching_rule |-> sinkCalls[c].body.embeds[i].title,
                      post |-> sinkCalls[c].body.embeds[i].description]
                       : i \in DOMAIN sinkCalls[c].body.embeds }
                   : c \in DOMAIN sinkCalls }

\* the titles and the matching rules of the pool, by post id
PoolTitle == [post \in PostPool |-> Title_parse(post.title, post.id)]
RuleHolds ==
    [i \in DOMAIN PipeRules |->
        [post \in PostPool |->
            /\ PoolTitle[post] # None
            /\ post_is_match(post, PipeRules[i])
            /\ title_is_match(PoolTitle[post][1], PipeRules[i])]]
PipeRuleHash == [i \in DOMAIN PipeRules |-> rule_hash(PipeRules[i])]

\* C13: every MatchingPost that is about to be sent, in the notify channel,
\* queued or handed to the sink has its (rule fingerprint, post id) row in
\* rule_matches, and its rule is the first rule of the list that matches
\* the post.
C13_PersistBeforeForward ==
    \A m \in ForwardedPairs :
        \E i \in DOMAIN PipeRules :
            /\ PipeRules[i] = m.matching_rule
            /\ \E r \in DOMAIN dbMatches :
                  dbMatches[r] = [rule_id |-> PipeRuleHash[i], post_id |-> m.post.id]
            /\ RuleHolds[i][m.post]
            /\ \A j \in 1..(i - 1) : ~RuleHolds[j][m.post]

\* a post that both rules match went to the sink under the first rule
C13_Witness ==
    \E c \in DOMAIN sinkCalls :
        /\ sinkCalls[c].result = "Ok"
        /\ \E i \in DOMAIN sinkCalls[c].body.embeds :
              /\ sinkCalls[c].body.embeds[i].title = PipeRules[1]
              /\ RuleHolds[1][sinkCalls[c].body.embeds[i].description]
              /\ RuleHolds[2][sinkCalls[c].body.embeds[i].description]

\* the post at the head of the channel meets one of the discard conditions
Discardable(post) ==
    \/ post.id \in dbPosts
    \/ PoolTitle[post] = None
    \/ \E row \in dbTitles : row.post_id = post.id
    \/ \A i \in DOMAIN PipeRules : ~RuleHolds[i][post]

\* C14: when process_posts receives a post that is a duplicate, whose title
\* does not extract, whose parsed title is a duplicate or that no rule
\* matches, and no storage call fails, the iteration ends as a discard: no
\* error, no rule_matches row, nothing sent or about to be sent to the
\* notify channel, and the task is back at rx.recv().
C14_SilentSkip ==
    [][(postChan # <<>> /\ received' = Append(received, Head(postChan))
          /\ Discardable(Head(postChan)) /\ lastOutcome' # "error")
       => /\ lastOutcome' \in Discards
          /\ dbMatches' = dbMatches
          /\ notifyChan' = notifyChan /\ sentMatches' = sentMatches
          /\ matchPending' = None
          /\ matchPc' = "recv"]_vars

\* a post that no rule matches was discarded, the same post was received
\* next and discarded as a duplicate, and the task is receiving again
C14_Witness ==
    /\ Len(received) = 2
    /\ received[1] = received[2]
    /\ PoolTitle[received[1]] # None
    /\ \A i \in DOMAIN PipeRules : ~RuleHolds[i][received[1]]
    /\ lastOutcome = "duplicate_post"
    /\ dbMatches = <<>> /\ sentMatches = <<>>
    /\ matchPc = "recv"

\* C19: when process_posts ends on a storage error the post it was handling
\* is not sent on and the other tasks are left as they are; the task stays
\* ended until the process is started again; the next tx.send of write_posts
\* fails and ends the ingestion task without putting the post in the
\* channel; notify_loop and clock can still take their steps.
C19_TaskFatalErrors ==
    /\ [][(matchPc = "recv" /\ matchPc' = "failed")
          => /\ matchPending' = None
             /\ notifyChan' = notifyChan /\ sentMatches' = sentMatches
             /\ ingestPc' = ingestPc /\ notifyState' = notifyState /\ clockPc' = clockPc]_vars
    /\ [][(matchPc = "failed" /\ restarts' = restarts) => matchPc' = "failed"]_vars
    /\ [][(matchPc = "failed" /\ restarts' = restarts /\ ingestPc = "emit" /\ outbox # <<>>
            /\ ingestPc' # "emit")
          => /\ ingestPc' = "failed"
             /\ postChan' = postChan /\ emitted' = emitted /\ outbox' = outbox]_vars
    /\ [][(matchPc = "failed" /\ restarts' = restarts /\ ingestPc = "emit" /\ outbox # <<>>)
          => postChan' = postChan]_vars
    /\ []((matchPc = "failed" /\ notifyState = "running")
          => /\ notifyChan # <<>> => ENABLED NotifyRecv
             /\ clockPc = "tick" => ENABLED ClockTick
             /\ (clockPc = "send" /\ ticks < MaxTicks /\ Len(notifyChan) < ChannelCapacity)
                   => ENABLED ClockSend)

\* process_posts ended on a storage error, write_posts failed on the post it
\* had left to send, and a tick was handled on the empty queue since
C19_Witness ==
    /\ restarts = 0
    /\ matchPc = "failed" /\ lastOutcome = "error"
    /\ ingestPc = "failed" /\ outbox # <<>>
    /\ notifyState = "running"
    /\ ticks = MaxTicks /\ clockPc = "send" /\ notifyChan = <<>>
    /\ queued_notifications = <<>> /\ sinkCalls = <<>>

\* C18: while the ingestion task waits between polls, the clock task and
\* process_posts, which share its worker thread, can take their next step.
C18_CooperativeWait ==
    (ingestPc = "sleep" /\ notifyState = "running")
        => /\ clockPc = "tick" => ENABLED ClockTick
           /\ (matchPc = "recv" /\ postChan # <<>>) => ENABLED MatchRecv

\* C11: the post channel never holds more than ChannelCapacity posts; with
\* the channel full write_posts cannot complete its send, and a post leaves
\* write_posts only by being appended to the channel; the posts received by
\* process_posts followed by those still in the channel are the posts
\* write_posts sent, in the order it sent them.
C11_Backpressure ==
    /\ [](Len(postChan) <= ChannelCapacity)
    /\ [](received \o postChan = emitted)
    /\ []((ingestPc = "emit" /\ outbox # <<>> /\ Len(postChan) = ChannelCapacity
            /\ ~receiver_dropped(matchPc))
          => ~ENABLED SendPost)
    /\ [][(ingestPc = "emit" /\ ingestPc' = "emit" /\ restarts' = restarts /\ outbox' # outbox)
          => /\ outbox' = Tail(outbox)
             /\ postChan' = Append(postChan, Head(outbox))
             /\ emitted' = Append(emitted, Head(outbox))]_vars

\* the channel is full, write_posts is suspended on the next post, and
\* process_posts has received posts before
C11_Witness ==
    /\ Len(postChan) = ChannelCapacity
    /\ ingestPc = "emit" /\ outbox # <<>>
    /\ matchPc = "recv"
    /\ received # <<>>

\* ------------------------------------------------------------------------
\* Claims about the notifier's quota
\* ------------------------------------------------------------------------
\* C20: when notify_loop handles a TimerFired with matches queued and the
\* recorded remaining count at 0, the one create_message call ends with
\* OutOfRequests, sends no request and leaves the count at 0; the queue is
\* kept and notify_loop ends; once ended it makes no further call.
C20_QuotaExhausted ==
    /\ [][(TimerFiredReceived /\ queued_notifications # <<>> /\ remaining = 0)
          => /\ Len(sinkCalls') = Len(sinkCalls) + 1
             /\ SubSeq(sinkCalls', 1, Len(sinkCalls)) = sinkCalls
             /\ sinkCalls'[Len(sinkCalls')].result = "OutOfRequests"
             /\ ~sinkCalls'[Len(sinkCalls')].request
             /\ remaining' = 0
             /\ queued_notifications' = queued_notifications
             /\ notifyState' = "failed"]_vars
    /\ [][notifyState = "failed"
          => UNCHANGED <<sinkCalls, queued_notifications, remaining, notifyState>>]_vars

\* a successful call reported that no requests remain, the next batch was
\* refused with OutOfRequests and is still queued
C20_Witness ==
    /\ Len(sinkCalls) = 2
    /\ sinkCalls[1].result = "Ok"
    /\ sinkCalls[2].result = "OutOfRequests" /\ ~sinkCalls[2].request
    /\ remaining = 0
    /\ queued_notifications # <<>>
    /\ notifyState = "failed"

\* ------------------------------------------------------------------------
\* Claims about the surface syntax (checked under SpecSyntax)
\* ------------------------------------------------------------------------
\* the pattern a sequence of terms stands for when '!' applies to all that
\* is written to its right: the terms before the first '!' are joined from
\* the left, and the first negated term and everything after it form the
\* operand of Not
RECURSIVE TermsAst(_), TermsFold(_, _, _)
TermsFold(terms, i, lhs) ==
    IF i > Len(terms) THEN lhs
    ELSE LET t == terms[i]
             operand == IF t.neg
                        THEN Not(TermsAst(<<Term("", FALSE, t.f)>>
                                            \o SubSeq(terms, i + 1, Len(terms))))
                        ELSE IF t.f.inner = <<>> THEN FactorAst(t.f) ELSE LeftFold(t.f.inner)
             joined == IF t.op = "" THEN operand
                       ELSE IF t.op = "And" THEN And(lhs, operand)
                       ELSE Or(lhs, operand)
         IN  IF t.neg THEN joined ELSE TermsFold(terms, i + 1, joined)
TermsAst(terms) == TermsFold(terms, 1, Exact(<<>>))

WholeForm == Parsed /\ chain.cut = "" /\ chain.terms # <<>>

C29_SurfaceSyntax ==
    WholeForm =>
        /\ scanned[1].res.ok
        /\ scanned[1].res = [parse_pattern(TermsText(chain.terms, FALSE, FALSE))
                                EXCEPT !.sc = scanned[1].res.sc]

\* a form with '!', a parenthesis and an operator, written with blanks and
\* quotes, parsed to the pattern of its plain text
C29_Witness ==
    /\ Parsed
    /\ source = <<"!", " ", "(", " ", Quote, "a", Quote, " ", "|", "|", " ", Quote, "b", Quote,
                  " ", ")">>
    /\ scanned[1].res.val = Not(Or(Exact(<<"a">>), Exact(<<"b">>)))

\* C30: a form that is cut short never yields a pattern: the empty input
\* and an operator with nothing after it fail in factor for want of a
\* ParenOpen or Keyword, one '&' or '|' fails in next_token for want of its
\* second character, and a sub-pattern after '(' with no ')' fails in factor
\* for want of a ParenClose.
C30_CutShort ==
    (Parsed /\ (chain.cut # "" \/ chain.terms = <<>>)) =>
        /\ ~scanned[1].res.ok
        /\ scanned[1].res.val = None
        /\ chain.cut \in {"", "&&", "||"} =>
              /\ scanned[1].res.err = "ExpectedButGotToken"
              /\ scanned[1].res.exp = "ParenOpen,Keyword"
        /\ chain.cut \in {"&", "|"} => scanned[1].res.err = "ExpectedButGotChar"
        /\ chain.cut = "(" =>
              /\ scanned[1].res.err = "ExpectedButGotToken"
              /\ scanned[1].res.exp = "ParenClose"

\* "(a||b" has been parsed: ParenClose was expected at the end of the input
C30_Witness ==
    /\ Parsed
    /\ source = <<"(", "a", "|", "|", "b">>
    /\ ~scanned[1].res.ok
    /\ scanned[1].res.exp = "ParenClose"

\* ------------------------------------------------------------------------
\* Structural digests (Pattern::hash on its own)
\* ------------------------------------------------------------------------
MaxDigestNodes == 3

\* the keywords of the hashed patterns: plain ones, and one that is '!'
\* followed by the characters of a digest
DigestKeywords == {<<"a">>, <<"b">>, <<"a", "b">>, DigestKeyword, <<"!", DigestChars>>}

RECURSIVE DigestPatternsOfSize(_)
DigestPatternsOfSize(n) ==
    IF n = 1 THEN {Exact(k) : k \in DigestKeywords}
    ELSE {Not(p) : p \in DigestPatternsOfSize(n - 1)}
         \cup UNION { {And(p, q) : p \in DigestPatternsOfSize(i),
                                   q \in DigestPatternsOfSize(n - 1 - i)}
                      \cup {Or(p, q) : p \in DigestPatternsOfSize(i),
                                       q \in DigestPatternsOfSize(n - 1 - i)}
                      : i \in 1..(n - 2) }
DigestPatterns == UNION {DigestPatternsOfSize(n) : n \in 1..MaxDigestNodes}

DigestInit ==
    /\ ParseIdle /\ SelectIdle /\ LoadIdle /\ NotifyIdle /\ IngestIdle /\ PipeIdle /\ ClockIdle /\ TitleIdle
    /\ evalPattern \in DigestPatterns
    /\ evalField = None
    /\ verdict = None

\* evalPattern.hash()
PatternHash ==
    /\ verdict = None
    /\ verdict' = Some([op |-> "hash", res |-> pattern_hash(evalPattern)])
    /\ UNCHANGED <<evalPattern, evalField, parseVars, selectVars, loadVars, notifyVars, ingestVars, pipeVars, clockVars, titleVars>>

SpecDigest == DigestInit /\ [][PatternHash]_vars

\* what was fed to the hasher that gave a digest
digest_input(digest) == digest.fed

Hashed == verdict # None /\ verdict[1].op = "hash"

\* C26: the digest input of a pattern is its own: no pattern of another
\* shape or with other operands (And(a, b), Or(a, b), And(b, a), Not(a), any
\* Exact(k)) has the same bytes fed to its hasher.
C26_DistinctInputs ==
    Hashed =>
        \A q \in DigestPatterns :
            q # evalPattern => digest_input(pattern_hash(q)) # digest_input(verdict[1].res)

\* ------------------------------------------------------------------------
\* The two Subject predicates on their own (Post::is_match, Title::is_match)
\* ------------------------------------------------------------------------
MaxPrice == 2

\* every combination of present and absent constraints
SubjectRules ==
    { [Rule_new EXCEPT !.link_flair_pattern = flair, !.product_type_pattern = product,
                       !.description_pattern = description,
                       !.price_min_dollars = min, !.price_max_dollars = max]
        : flair \in {None, Pat(<<"a">>), NotPat(<<"a">>)},
          product \in {None, Pat(<<"a">>)},
          description \in {None, Pat(<<"b">>)},
          min \in {None} \cup {Some(n) : n \in 1..MaxPrice},
          max \in {None} \cup {Some(n) : n \in 1..MaxPrice} }

\* titles priced below, at and above the bounds; price_cents is an i8 and
\* is not always a single digit
SubjectTitles ==
    { [post_id |-> <<"p">>, product_type |-> ty, description |-> desc,
       price_dollars |-> dollars, price_cents |-> cents, extra_details |-> None]
        : ty \in {<<"a">>, <<"b">>}, desc \in {<<"a">>, <<"b">>},
          dollars \in 0..MaxPrice, cents \in {0, 5, 10} }

SubjectInit ==
    /\ ParseIdle /\ MatchIdle /\ LoadIdle /\ NotifyIdle /\ IngestIdle /\ PipeIdle /\ ClockIdle /\ TitleIdle
    /\ rulesArg \in {<<rule>> : rule \in SubjectRules}
    /\ postArg \in {Some(p) : p \in Posts}
    /\ titleArg \in {Some(t) : t \in SubjectTitles}
    /\ selected = None

\* post.is_match(&rule)
PostIsMatch ==
    /\ selected = None
    /\ selected' = Some([op |-> "post", res |-> post_is_match(postArg[1], rulesArg[1])])
    /\ UNCHANGED <<rulesArg, postArg, titleArg, parseVars, matchVars, loadVars, notifyVars, ingestVars, pipeVars, clockVars, titleVars>>

\* title.is_match(&rule)
TitleIsMatch ==
    /\ selected = None
    /\ titleArg # None
    /\ selected' = Some([op |-> "title", res |-> title_is_match(titleArg[1], rulesArg[1])])
    /\ UNCHANGED <<rulesArg, postArg, titleArg, parseVars, matchVars, loadVars, notifyVars, ingestVars, pipeVars, clockVars, titleVars>>

SubjectNext == PostIsMatch \/ TitleIsMatch

SpecSubject == SubjectInit /\ [][SubjectNext]_vars

\* ------------------------------------------------------------------------
\* Claims about the Subject predicates (checked under SpecSubject)
\* ------------------------------------------------------------------------
PostChecked == selected # None /\ selected[1].op = "post"
TitleChecked == selected # None /\ selected[1].op = "title"

\* the title passes the pattern constraints of the rule
PatternsPass ==
    /\ rulesArg[1].product_type_pattern # None =>
          does_string_match(rulesArg[1].product_type_pattern[1].pattern, titleArg[1].product_type)
    /\ rulesArg[1].description_pattern # None =>
          does_string_match(rulesArg[1].description_pattern[1].pattern, titleArg[1].description)

\* price_dollars + 0.1 * price_cents, in tenths of a dollar
TitleTenths == 10 * titleArg[1].price_dollars + titleArg[1].price_cents

\* C22: the price check of Title::is_match is inclusive and each bound is
\* checked on its own: with price = dollars + 0.1 * cents, a title that
\* passes the pattern constraints matches exactly when (min is absent or
\* min <= price) and (max is absent or price <= max); a price equal to a
\* bound passes.
C22_InclusiveBounds ==
    (TitleChecked /\ PatternsPass) =>
        selected[1].res =
            (/\ rulesArg[1].price_min_dollars = None
                  \/ 10 * rulesArg[1].price_min_dollars[1] <= TitleTenths
             /\ rulesArg[1].price_max_dollars = None
                  \/ TitleTenths <= 10 * rulesArg[1].price_max_dollars[1])

\* a title priced 2.0 matched a rule whose two bounds are both 2
C22_Witness ==
    /\ TitleChecked
    /\ PatternsPass
    /\ titleArg[1].price_dollars = 2 /\ titleArg[1].price_cents = 0
    /\ rulesArg[1].price_min_dollars = Some(2)
    /\ rulesArg[1].price_max_dollars = Some(2)
    /\ selected[1].res = TRUE

\* the rule with one of its optional constraints removed
Relaxed(rule) ==
    { [rule EXCEPT ![f] = None]
        : f \in {"link_flair_pattern", "product_type_pattern", "description_pattern",
                 "price_min_dollars", "price_max_dollars"} }

\* C23: an unconstrained attribute never rejects.  A rule without flair
\* pattern matches every listing, with flair or without; a rule without
\* patterns and bounds matches every title (a definition without keys
\* compiles to such a rule); and a subject that matches a rule matches it
\* with any one constraint removed.
C23_UnconstrainedNeverRejects ==
    /\ parse_json(EmptyDef) = RuleOk(Rule_new)
    /\ (PostChecked /\ rulesArg[1].link_flair_pattern = None) => selected[1].res
    /\ (TitleChecked /\ rulesArg[1] = [Rule_new EXCEPT
                                          !.link_flair_pattern = rulesArg[1].link_flair_pattern])
          => selected[1].res
    /\ (PostChecked /\ selected[1].res) =>
          \A rule \in Relaxed(rulesArg[1]) : post_is_match(postArg[1], rule)
    /\ (TitleChecked /\ selected[1].res) =>
          \A rule \in Relaxed(rulesArg[1]) : title_is_match(titleArg[1], rule)

\* a listing without flair matched the rule that has no constraint at all
C23_Witness ==
    /\ PostChecked
    /\ rulesArg[1] = Rule_new
    /\ postArg[1].link_flair_text = None
    /\ selected[1].res = TRUE

\* ------------------------------------------------------------------------
\* The clock in time (poll.rs, clock).  tokio::time::interval(period) is
\* interval_at(Instant::now(), period): its first tick completes at once,
\* and with the default MissedTickBehavior (Burst) every later tick
\* completes one period after the deadline of the tick before it, or at once
\* when that instant has passed.
\* ------------------------------------------------------------------------
MaxPeriod == 2

interval(seconds, start) == Some(start)
next_deadline(at, seconds) == Some(at[1] + seconds)

\* notify_loop has spawned the clock, which has made its Interval
ClockInit ==
    /\ ParseIdle /\ MatchIdle /\ SelectIdle /\ LoadIdle /\ IngestIdle /\ PipeIdle /\ TitleIdle
    /\ notifyChan = <<>>
    /\ queued_notifications = <<>>
    /\ remaining = 1
    /\ sinkCalls = <<>>
    /\ notifyState = "running"
    /\ clockPc = "send"
    /\ ticks = 0
    /\ forwarded = 0
    /\ period \in 1..MaxPeriod
    /\ deadline = interval(period, now)
    /\ firedAt = <<>>

\* clock: tx.send(NotifyMessage::TimerFired).await, at time `now`
ClockSendAt ==
    /\ notifyState = "running"
    /\ ~worker_blocked
    /\ clockPc = "send"
    /\ ticks < MaxTicks
    /\ Len(notifyChan) < ChannelCapacity
    /\ notifyChan' = Append(notifyChan, TimerFired)
    /\ ticks' = ticks + 1
    /\ firedAt' = Append(firedAt, now)
    /\ clockPc' = "tick"
    /\ UNCHANGED <<queued_notifications, remaining, sinkCalls, notifyState, forwarded, period,
                   deadline, parseVars, matchVars, selectVars, loadVars, ingestVars, pipeVars, titleVars>>

\* clock: interval.tick().await completes, at its deadline or later
IntervalTick ==
    /\ notifyState = "running"
    /\ ~worker_blocked
    /\ clockPc = "tick"
    /\ deadline[1] <= now
    /\ deadline' = next_deadline(deadline, period)
    /\ clockPc' = "send"
    /\ UNCHANGED <<notifyChan, queued_notifications, remaining, sinkCalls, notifyState, ticks,
                   forwarded, period, firedAt, parseVars, matchVars, selectVars, loadVars,
                   ingestVars, pipeVars, titleVars>>

ClockNext == ClockSendAt \/ IntervalTick \/ TimePasses \/ NotifyRecv

SpecClock == ClockInit /\ [][ClockNext]_vars

\* C27: the clock sends TimerFired on a fixed period: between any two
\* consecutive TimerFired it sends, the first two included, at least one
\* whole period passes.
C27_FixedPeriod ==
    \A i \in 1..(Len(firedAt) - 1) : firedAt[i + 1] - firedAt[i] >= period

\* ------------------------------------------------------------------------
\* Title extraction on its own (Title::parse).  A title is written from
\* pieces, each with the value it stands for: '[' T ']' D '$' N, then '.' C
\* when there are cents, then E.
\* ------------------------------------------------------------------------
Piece(text, val) == [text |-> text, val |-> val]

TypePieces ==
    { Piece(<<"a">>, <<"a">>),
      Piece(<<" ", "A", " ", "1", " ">>, <<"A", " ", "1">>),
      Piece(<<"a", "_", "b">>, <<"a", "_", "b">>) }
DescPieces ==
    { Piece(<<>>, <<>>),
      Piece(<<" ">>, <<>>),
      Piece(<<" ", "b", " ">>, <<"b">>),
      Piece(<<" ", "b", " ", "-", " ">>, <<"b", " ", "-">>) }
\* amounts of dollars: the last one is no i32
DollarPieces ==
    { Piece(<<"5">>, Some(5)),
      Piece(<<"0", "5">>, Some(5)),
      Piece(<<"1", "2">>, Some(12)),
      Piece(<<"2", "1", "4", "7", "4", "8", "3", "6", "4", "7">>, Some(2147483647)),
      Piece(<<"2", "1", "4", "7", "4", "8", "3", "6", "4", "8">>, None) }
\* cents: absent, or digits; the last one is no i8
CentPieces ==
    { Piece(None, Some(0)),
      Piece(Some(<<"0">>), Some(0)),
      Piece(Some(<<"5">>), Some(5)),
      Piece(Some(<<"0", "5">>), Some(5)),
      Piece(Some(<<"9", "9">>), Some(99)),
      Piece(Some(<<"1", "2", "7">>), Some(127)),
      Piece(Some(<<"1", "2", "8">>), None) }
\* what follows the price: nothing, or text that does not start with a digit
PlainExtras ==
    { Piece(<<>>, None),
      Piece(<<" ">>, Some(<<>>)),
      Piece(<<" ", "a", " ">>, Some(<<"a">>)),
      Piece(<<".">>, Some(<<".">>)) }
ExtraPieces == PlainExtras \cup { Piece(<<" ", "(", "$", "1", ")">>, Some(<<"(", "$", "1", ")">>)) }

\* a whole title, or one that lacks a piece
Shapes == {"whole", "no_open", "no_close", "no_type", "no_dollar", "no_amount"}

TitleForms ==
    { [shape |-> "whole", type |-> t, desc |-> d, dollars |-> n, cents |-> c, extra |-> e]
        : t \in TypePieces, d \in DescPieces, n \in DollarPieces, c \in CentPieces,
          e \in ExtraPieces }
    \cup
    { [shape |-> shape, type |-> t, desc |-> d, dollars |-> Piece(<<"5">>, Some(5)),
       cents |-> c, extra |-> e]
        : shape \in Shapes \ {"whole"}, t \in TypePieces, d \in DescPieces,
          c \in {Piece(None, Some(0)), Piece(Some(<<"5">>), Some(5))}, e \in PlainExtras }

PriceText(form) ==
    (IF form.shape = "no_dollar" THEN <<>> ELSE <<"$">>)
    \o (IF form.shape = "no_amount" THEN <<>>
        ELSE form.dollars.text
             \o (IF form.cents.text = None THEN <<>> ELSE <<".">> \o form.cents.text[1]))

TitleText(form) ==
    (IF form.shape = "no_open" THEN <<>> ELSE <<"[">>)
    \o (IF form.shape = "no_type" THEN <<>> ELSE form.type.text)
    \o (IF form.shape = "no_close" THEN <<>> ELSE <<"]">>)
    \o form.desc.text \o PriceText(form) \o form.extra.text

TitleInit ==
    /\ ParseIdle /\ MatchIdle /\ LoadIdle /\ NotifyIdle /\ IngestIdle /\ PipeIdle /\ ClockIdle
    /\ titleForm \in {Some(form) : form \in TitleForms}
    /\ rulesArg = <<>>
    /\ postArg = Some([id |-> <<"p">>, link_flair_text |-> None, title |-> TitleText(titleForm[1])])
    /\ titleArg = None
    /\ selected = None

\* Title::parse(&post.title, &post.id)
ParseTitle ==
    /\ selected = None
    /\ selected' = Some([op |-> "parse", res |-> Title_parse(postArg[1].title, postArg[1].id)])
    /\ UNCHANGED <<rulesArg, postArg, titleArg, parseVars, matchVars, loadVars, notifyVars, ingestVars, pipeVars, clockVars, titleVars>>

SpecTitle == TitleInit /\ [][ParseTitle]_vars

\* ------------------------------------------------------------------------
\* Claims about title extraction (checked under SpecTitle)
\* ------------------------------------------------------------------------
TitleParsed == selected # None /\ selected[1].op = "parse"

\* C24: every title that title extraction produces has price_cents between
\* 0 and 9.
C24_SingleDigitCents ==
    (TitleParsed /\ selected[1].res # None) => selected[1].res[1].price_cents \in 0..9

\* the Title the pieces of a whole form stand for
TitleOfPieces(form) ==
    [post_id |-> postArg[1].id,
     product_type |-> form.type.val,
     description |-> form.desc.val,
     price_dollars |-> form.dollars.val[1],
     price_cents |-> form.cents.val[1],
     extra_details |-> form.extra.val]

visit_str(v) ==
    Only({ IF parsed.ok
           THEN [ok |-> TRUE, val |-> Some(PatternAndSource(v, parsed.val)), err |-> <<>>]
           ELSE [ok |-> FALSE, val |-> None, err |-> <<"failed to parse pattern", parsed.err>>]
             : parsed \in {parse_pattern(v)} })

\* an Option<PatternAndSource> field: deserialize_str on what the key holds
deserialize_pattern(v) ==
    IF v = None THEN [ok |-> TRUE, val |-> None, err |-> <<>>]
    ELSE IF as_str(v[1]) = None THEN [ok |-> FALSE, val |-> None, err |-> <<"expected a string">>]
    ELSE visit_str(as_str(v[1])[1])

\* #[derive(Deserialize)] for Rule
deserialize_rule(val) ==
    IF ~val.object THEN RuleErr(<<"invalid type">>)
    ELSE IF val.name # None /\ as_str(val.name[1]) = None THEN RuleErr(<<"invalid type", "name">>)
    ELSE LET flair == deserialize_pattern(val.link_flair_pattern)
             product == deserialize_pattern(val.product_type_pattern)
             description == deserialize_pattern(val.description_pattern)
         IN  IF ~flair.ok THEN RuleErr(flair.err)
             ELSE IF ~product.ok THEN RuleErr(product.err)
             ELSE IF ~description.ok THEN RuleErr(description.err)
             ELSE IF val.price_min # None /\ as_i64(val.price_min[1]) = None
             THEN RuleErr(<<"invalid type", "price_min_dollars">>)
             ELSE IF val.price_max # None /\ as_i64(val.price_max[1]) = None
             THEN RuleErr(<<"invalid type", "price_max_dollars">>)
             ELSE RuleOk([name |-> IF val.name # None THEN as_str(val.name[1]) ELSE None,
                          link_flair_pattern |-> flair.val,
                          product_type_pattern |-> product.val,
                          description_pattern |-> description.val,
                          price_min_dollars |->
                              IF val.price_min # None THEN as_i64(val.price_min[1]) ELSE None,
                          price_max_dollars |->
                              IF val.price_max # None THEN as_i64(val.price_max[1]) ELSE None])

\* Vec<Rule> deserialized with the definitions that fail left out
RECURSIVE deserialize_rules_skipping_bad(_, _, _)
deserialize_rules_skipping_bad(contents, i, rules) ==
    IF i > Len(contents) THEN [ok |-> TRUE, rules |-> rules, err |-> <<>>]
    ELSE Only({ IF r.ok THEN deserialize_rules_skipping_bad(contents, i + 1, Append(rules, r.rule))
                ELSE deserialize_rules_skipping_bad(contents, i + 1, rules)
                : r \in {deserialize_rule(contents[i])} })

\* Vec<Rule>: the definitions in order, the first error ends it
RECURSIVE deserialize_rules(_, _, _)
deserialize_rules(contents, i, rules) ==
    IF i > Len(contents) THEN [ok |-> TRUE, rules |-> rules, err |-> <<>>]
    ELSE Only({ IF r.ok THEN deserialize_rules(contents, i + 1, Append(rules, r.rule))
                ELSE [ok |-> FALSE, rules |-> <<>>, err |-> <<"Toml">> \o r.err]
                : r \in {deserialize_rule(contents[i])} })

\* Config::from_toml: toml::from_str(&source).map_err(Error::Toml)?
from_toml(file) ==
    IF file.kind = "not_toml" THEN [ok |-> FALSE, rules |-> <<>>, err |-> <<"Toml">>]
    ELSE deserialize_rules(file.contents, 1, <<>>)

\* Config::read_from_toml_file
read_from_toml_file(file) ==
    IF file.kind = "unreadable" THEN [ok |-> FALSE, rules |-> <<>>, err |-> <<"Io">>]
    ELSE from_toml(file)

\* rule definitions of configuration files: two that compile and two that
\* do not (a pattern that ends after one '&', a pattern that is a number)
StartupGoodDefs == {EmptyDef, [EmptyDef EXCEPT !.link_flair_pattern = Some(JStr(<<"a">>))]}
StartupBadDefs ==
    { [EmptyDef EXCEPT !.description_pattern = Some(JStr(<<"a", "&">>))],
      [EmptyDef EXCEPT !.product_type_pattern = Some(JNum(1))] }

\* the listing the source would serve
StartupFeed == <<PipePost(3, <<"a", "b">>)>>

StartupInit ==
    /\ ParseIdle /\ MatchIdle /\ SelectIdle /\ NotifyIdle /\ IngestIdle /\ ClockIdle /\ TitleIdle
    /\ \/ \E kind \in {"unreadable", "not_toml"} : ruleFile = Some(RuleFile(kind, <<>>))
       \/ \E n \in 0..MaxDefs : \E defs \in [1..n -> StartupGoodDefs \cup StartupBadDefs] :
             ruleFile = Some(RuleFile("array", defs))
    /\ ruleSet = None
    /\ ruleInserts = <<>>
    /\ startup = "idle"
    /\ feed = StartupFeed /\ outbox = <<>> /\ postChan = <<>> /\ matchPc = "off"
    /\ matchPending = None
    /\ dbPosts = {} /\ dbTitles = {} /\ dbMatches = <<>> /\ emitted = <<>> /\ received = <<>>
    /\ lastOutcome = "" /\ sentMatches = <<>> /\ singleWorker = FALSE

\* main: config::Config::read_from_toml_file("config.toml")?
ReadFromTomlFile ==
    /\ startup = "idle"
    /\ ruleSet' = Some(read_from_toml_file(ruleFile[1]))
    /\ startup' = IF read_from_toml_file(ruleFile[1]).ok THEN "loaded" ELSE "load_failed"
    /\ UNCHANGED <<ruleFile, ruleInserts, parseVars, matchVars, selectVars, notifyVars, ingestVars, pipeVars, clockVars, titleVars>>

\* polling_loop that spawns the tasks before it writes the rules
SpawnTasks_before_write_rules ==
    /\ startup = "loaded"
    /\ startup' = "running"
    /\ matchPc' = "recv"
    /\ ingestPc' = "fetch"
    /\ notifyState' = "running"
    /\ UNCHANGED <<ruleFile, ruleSet, ruleInserts, feed, outbox, postChan, matchPending, dbPosts,
                   dbTitles, dbMatches, emitted, received, lastOutcome, sentMatches, singleWorker,
                   IngestRest, notifyChan, queued_notifications, remaining, sinkCalls, clockPc,
                   ticks, forwarded, parseVars, matchVars, selectVars, clockVars, titleVars>>

\* polling_loop after write_rules: the channels are made, the ingestion and
\* match tasks are spawned, and notify_loop spawns the clock
SpawnTasks ==
    /\ startup = "rules_written"
    /\ startup' = "running"
    /\ matchPc' = "recv"
    /\ ingestPc' = "fetch"
    /\ notifyState' = "running"
    /\ UNCHANGED <<ruleFile, ruleSet, ruleInserts, feed, outbox, postChan, matchPending, dbPosts,
                   dbTitles, dbMatches, emitted, received, lastOutcome, sentMatches, singleWorker,
                   IngestRest, notifyChan, queued_notifications, remaining, sinkCalls, clockPc,
                   ticks, forwarded, parseVars, matchVars, selectVars, clockVars, titleVars>>

\* startup, and the first steps of the ingestion task, the clock and notify_loop
StartupNext ==
    ReadFromTomlFile \/ WriteRules \/ SpawnTasks \/ FetchListing \/ ClockSend \/ ClockTick
        \/ NotifyRecv

SpecStartup == StartupInit /\ [][StartupNext]_vars

\* the configuration does not load: the file is unreadable or malformed, or
\* one of its rule definitions does not compile
BadConfig ==
    \/ ruleFile[1].kind # "array"
    \/ \E i \in DOMAIN ruleFile[1].contents : ruleFile[1].contents[i] \in StartupBadDefs

\* nothing of the pipeline exists: no task, no channel content, no listing
\* fetched, no row stored
NothingStarted ==
    /\ matchPc = "off" /\ ingestPc = "off" /\ notifyState = "off"
    /\ feed = StartupFeed /\ outbox = <<>> /\ postChan = <<>> /\ notifyChan = <<>>
    /\ ticks = 0 /\ sinkCalls = <<>>
    /\ dbPosts = {} /\ dbTitles = {} /\ dbMatches = <<>>

\* C21: when a rule of the configuration has a pattern that does not parse,
\* or the configuration is malformed in another way, loading returns an
\* error and startup ends there: no rule is written to storage, no task is
\* spawned and no listing is fetched.
C21_StartupFatal ==
    (ruleSet # None /\ BadConfig) =>
        /\ ~ruleSet[1].ok
        /\ startup = "load_failed"
        /\ ruleInserts = <<>>
        /\ NothingStarted

\* a configuration whose second rule has the pattern "a&" was read
C21_Witness ==
    /\ ruleSet # None
    /\ Len(ruleFile[1].contents) = 2
    /\ ruleFile[1].contents[1] \in StartupGoodDefs
    /\ ruleFile[1].contents[2].description_pattern = Some(JStr(<<"a", "&">>))
    /\ startup = "load_failed"
    /\ ruleInserts = <<>>

\* ------------------------------------------------------------------------
\* A listed price against the price bounds: the title is extracted, then
\* matched (Title::parse, then Title::is_match on its result)
\* ------------------------------------------------------------------------
DigitChar(n) == <<"0", "1", "2", "3", "4", "5", "6", "7", "8", "9">>[n + 1]

\* the title "[a]b$D.CC"
PricedTitle(dollars, cents) ==
    <<"[", "a", "]", "b", "$", DigitChar(dollars), ".">> \o cents

TwoDigitCents == {<<"0", "0">>, <<"0", "5">>, <<"1", "0">>, <<"5", "0">>, <<"9", "9">>}

PricedInit ==
    /\ ParseIdle /\ MatchIdle /\ LoadIdle /\ NotifyIdle /\ IngestIdle /\ PipeIdle /\ ClockIdle /\ TitleIdle
    /\ \E min \in {None} \cup {Some(n) : n \in 1..MaxPrice} :
       \E max \in {None} \cup {Some(n) : n \in 1..MaxPrice} :
          rulesArg = <<[Rule_new EXCEPT !.price_min_dollars = min, !.price_max_dollars = max]>>
    /\ \E dollars \in 0..MaxPrice : \E cents \in TwoDigitCents :
          postArg = Some([id |-> <<"p">>, link_flair_text |-> None,
                          title |-> PricedTitle(dollars, cents)])
    /\ titleArg = None
    /\ selected = None

\* Title::parse(&post.title, &post.id), its result kept when it is a Title
ExtractTitle ==
    /\ titleArg = None
    /\ Title_parse(postArg[1].title, postArg[1].id) # None
    /\ titleArg' = Title_parse(postArg[1].title, postArg[1].id)
    /\ UNCHANGED <<rulesArg, postArg, selected, parseVars, matchVars, loadVars, notifyVars, ingestVars, pipeVars, clockVars, titleVars>>

PricedNext == ExtractTitle \/ TitleIsMatch

SpecPriced == PricedInit /\ [][PricedNext]_vars

\* C38: the price bounds agree with the listed price: a title listed at
\* $D.CC passes price_max whenever D < price_max and passes price_min
\* whenever D >= price_min.
C38_BoundsAgree ==
    (TitleChecked
        /\ (rulesArg[1].price_min_dollars # None =>
                titleArg[1].price_dollars >= rulesArg[1].price_min_dollars[1])
        /\ (rulesArg[1].price_max_dollars # None =>
                titleArg[1].price_dollars < rulesArg[1].price_max_dollars[1]))
    => selected[1].res

\* ------------------------------------------------------------------------
\* polling_loop from write_rules on: the rules of the configuration are
\* written, the tasks are spawned, and the pipeline runs
\* ------------------------------------------------------------------------
\* polling_loop(config) is entered with the configuration that was read
RunInit ==
    /\ ParseIdle /\ MatchIdle /\ SelectIdle /\ NotifyIdle /\ IngestIdle /\ ClockIdle /\ TitleIdle
    /\ ruleFile = None
    /\ ruleSet = Some([ok |-> TRUE, rules |-> PipeRules, err |-> <<>>])
    /\ ruleInserts = <<>>
    /\ startup = "loaded"
    /\ \E n \in 0..MaxFeed : \E posts \in [1..n -> PostPool] : feed = posts
    /\ outbox = <<>> /\ postChan = <<>> /\ matchPc = "off" /\ matchPending = None
    /\ dbPosts = {} /\ dbTitles = {} /\ dbMatches = <<>> /\ emitted = <<>> /\ received = <<>>
    /\ lastOutcome = "" /\ sentMatches = <<>> /\ singleWorker = FALSE

RunNext ==
    WriteRules \/ SpawnTasks \/ FetchListing \/ SendPost \/ SleepOver \/ MatchRecv
        \/ MatchRecvClosed \/ MatchSend \/ ClockSend \/ ClockTick \/ NotifyRecv

SpecRun == RunInit /\ [][RunNext]_vars

\* a task of the pipeline exists
TaskStarted == matchPc # "off" \/ ingestPc # "off" \/ notifyState # "off"

\* C37: every rule is written to storage before a pipeline task starts, so
\* the rule id of each row of rule_matches is the id of a row of rules, and
\* the post id of each row of parsed_titles is the id of a row of posts.
C37_RowsRefer ==
    /\ TaskStarted =>
          /\ Len(ruleInserts) = Len(ruleSet[1].rules)
          /\ \A i \in 1..Len(ruleInserts) : ruleInserts[i].id = rule_hash(ruleSet[1].rules[i])
    /\ \A k \in 1..Len(dbMatches) :
          \E i \in 1..Len(ruleInserts) : ruleInserts[i].id = dbMatches[k].rule_id
    /\ \A row \in dbTitles : row.post_id \in dbPosts

\* a match of the first rule and the title of its post are stored
C37_Witness ==
    /\ startup = "running"
    /\ \E k \in 1..Len(dbMatches) :
          /\ dbMatches[k].rule_id = rule_hash(PipeRules[1])
          /\ \E row \in dbTitles : row.post_id = dbMatches[k].post_id

\* ------------------------------------------------------------------------
\* The four tasks on their channels, the notify channel starting empty or
\* one short of full: the clock has sent `backlog` TimerFired that
\* notify_loop has not received yet (ticks counts the ones sent from here on)
\* ------------------------------------------------------------------------
Backlog(n) == [i \in 1..n |-> TimerFired]

\* the listing the source serves: one that rule r1 matches
DrainFeed == <<PipePost(1, <<"[", "a", "]", "b", "$", "1">>)>>

DrainInit ==
    /\ ParseIdle /\ MatchIdle /\ SelectIdle /\ LoadIdle /\ ClockIdle /\ TitleIdle
    /\ now = 0 /\ auth = None /\ tokenFile = None /\ lastFetch = None /\ reported = None
    /\ sleepFor = None /\ tokens = 0 /\ restarts = 0 /\ fetches = 0 /\ emits = 0
    /\ feed = DrainFeed
    /\ singleWorker = FALSE
    /\ dbPosts = {} /\ dbTitles = {} /\ dbMatches = <<>>
    /\ lastOutcome = "" /\ sentMatches = <<>>
    /\ sinkCalls = <<>> /\ ticks = 0 /\ forwarded = 0
    /\ outbox = <<>> /\ postChan = <<>> /\ matchPc = "recv" /\ matchPending = None
    /\ emitted = <<>> /\ received = <<>>
    /\ ingestPc = "fetch"
    /\ \E backlog \in {0, ChannelCapacity - 1} : notifyChan = Backlog(backlog)
    /\ queued_notifications = <<>> /\ remaining = 1
    /\ notifyState = "running" /\ clockPc = "send"

DrainNext ==
    FetchListing \/ SendPost \/ SleepOver \/ MatchRecv \/ MatchRecvClosed \/ MatchSend
        \/ ClockSend \/ ClockTick \/ NotifyRecv

SpecDrain == DrainInit /\ [][DrainNext]_vars

\* write_posts is suspended in tx.send(post): the post channel is full
IngestionBlocked ==
    /\ ingestPc = "emit" /\ outbox # <<>> /\ ~receiver_dropped(matchPc)
    /\ channel_send(postChan, Head(outbox)) = None

\* process_posts is suspended in rx.recv() on the empty post channel, or in
\* tx.send(NewMatch) on the full notify channel
MatchBlocked ==
    \/ matchPc = "recv" /\ postChan = <<>> /\ ~sender_dropped(ingestPc)
    \/ matchPc = "send" /\ channel_send(notifyChan, NewMatch(matchPending[1])) = None

\* the clock is suspended in tx.send(TimerFired): the notify channel is full
ClockBlocked == clockPc = "send" /\ channel_send(notifyChan, TimerFired) = None

\* notify_loop is suspended in rx.recv() on the empty notify channel
NotifyBlocked == notifyChan = <<>>

DeliveryFeed ==
    << PipePost(1, <<"[", "a", "]", "b", "$", "1">>),
       PipePost(2, <<"[", "a", "]", "b", "$", "1">>) >>

DeliveryInit ==
    /\ ParseIdle /\ MatchIdle /\ SelectIdle /\ LoadIdle /\ ClockIdle /\ TitleIdle
    /\ now = 0 /\ auth = None /\ tokenFile = None /\ lastFetch = None /\ reported = None
    /\ sleepFor = None /\ tokens = 0 /\ restarts = 0 /\ fetches = 0 /\ emits = 0
    /\ feed = DeliveryFeed
    /\ singleWorker = FALSE
    /\ dbPosts = {} /\ dbTitles = {} /\ dbMatches = <<>>
    /\ lastOutcome = "" /\ sentMatches = <<>>
    /\ sinkCalls = <<>> /\ ticks = 0 /\ forwarded = 0
    /\ PipeStart

\* clock: tx.send(NotifyMessage::TimerFired).await, the sends not counted
ClockSendUncounted ==
    /\ notifyState = "running"
    /\ ~worker_blocked
    /\ clockPc = "send"
    /\ channel_send(notifyChan, TimerFired) # None
    /\ notifyChan' = channel_send(notifyChan, TimerFired)[1]
    /\ clockPc' = "tick"
    /\ UNCHANGED <<queued_notifications, remaining, sinkCalls, notifyState, ticks, forwarded,
                   parseVars, matchVars, selectVars, loadVars, ingestVars, pipeVars, clockVars, titleVars>>

IngestionTask == FetchListing \/ SendPost \/ SleepOver
MatchTask == MatchRecv \/ MatchRecvClosed \/ MatchSend
ClockTask == ClockSendUncounted \/ ClockTick

\* no storage, source or sink call has returned an error
NoFailure == ingestPc # "failed" /\ matchPc # "failed" /\ notifyState # "failed"

\* the steps of the tasks in which no call returns an error
DeliveryNext ==
    \/ FetchListing /\ NoFailure'
    \/ SendPost /\ NoFailure'
    \/ SleepOver /\ NoFailure'
    \/ MatchRecv /\ NoFailure'
    \/ MatchSend /\ NoFailure'
    \/ ClockSendUncounted /\ NoFailure'
    \/ ClockTick /\ NoFailure'
    \/ NotifyRecv /\ NoFailure'

\* fair scheduling.  notify_loop, when it can take a step, takes one.  The
\* senders wait for a slot of a tokio bounded channel, which hands out its
\* slots in the order they were asked for: a sender that can send again and
\* again does send.  The step that is taken is whatever the code does then:
\* a state where the only step of a task is a call that returns an error (a
\* batch is due and the recorded sink quota is 0) has no continuation here,
\* so the runs of this specification are the fair runs of the pipeline in
\* which no call fails.
SpecDelivery ==
    /\ DeliveryInit /\ [][DeliveryNext]_vars
    /\ SF_vars(IngestionTask) /\ SF_vars(MatchTask) /\ SF_vars(ClockTask) /\ WF_vars(NotifyRecv)

\* the post ids of the rows of rule_matches, in the order they were stored
AcceptedPosts == [k \in 1..Len(dbMatches) |-> dbMatches[k].post_id]

\* the post ids of the embeds of the batches the sink accepted, batch after batch
RECURSIVE SentPosts(_)
SentPosts(calls) ==
    IF calls = <<>> THEN <<>>
    ELSE (IF Head(calls).result = "Ok"
          THEN [k \in 1..Len(Head(calls).body.embeds) |-> Head(calls).body.embeds[k].description.id]
          ELSE <<>>) \o SentPosts(Tail(calls))

IsPrefix(a, b) == Len(a) <= Len(b) /\ a = SubSeq(b, 1, Len(a))

DeliveryPosts == {DeliveryFeed[k].id : k \in 1..Len(DeliveryFeed)}

\* C33: under fair scheduling and with no storage, source or sink failure,
\* every listing process_posts accepts is eventually in exactly one batch
\* sent to the sink, and the batches sent, one after the other, list the
\* accepted listings in the order they were accepted.
C33_Delivery ==
    /\ [](IsPrefix(SentPosts(sinkCalls), AcceptedPosts))
    /\ \A id \in DeliveryPosts :
          (\E k \in 1..Len(dbMatches) : dbMatches[k].post_id = id)
              ~> (\E k \in 1..Len(SentPosts(sinkCalls)) : SentPosts(sinkCalls)[k] = id)

\* both listings were accepted and sent, each in a batch of its own
C33_Witness ==
    /\ NoFailure
    /\ AcceptedPosts = <<1, 2>>
    /\ Len(sinkCalls) = 2
    /\ SentPosts(sinkCalls) = <<1, 2>>

=============================================================================
